---- MODULE Spec2Model ----
(***************************************************************************)
(* A model of keystone's resilience layer: the circuit breaker             *)
(* (package circuit), the priority request queue (package github),         *)
(* the three-tier cache, the offline detector and the offline mode         *)
(* manager (package cache) and the GitHub client (package github).         *)
(* Each component has its own specification over the shared variables:     *)
(* SpecBreaker for the breaker, SpecQueue for the queue, SpecQueueLive     *)
(* for a started queue that is never stopped, under fair scheduling,       *)
(* SpecQueueOrder for the queue with its dispatch history recorded,        *)
(* SpecCache for the cache as DefaultCacheConfig sets it up,               *)
(* SpecCachePolicies for the cache under every eviction policy,            *)
(* SpecDetector for the detector, SpecUpdateMode for its mode as a         *)
(* function of any service status, SpecManager for the manager in every    *)
(* mode, SpecClient for the client and its breaker, SpecBackoff for the    *)
(* backoff of the client under any configuration and stored quota,         *)
(* SpecBreakerClock for the breaker with the time since it opened          *)
(* recorded, SpecCacheGetters for two goroutines racing on one key, and    *)
(* SpecCacheLocks for the mutexes that Set and Stats take.                 *)
(***************************************************************************)
EXTENDS Integers, Sequences, FiniteSets, TLC

(***************************************************************************)
(* Circuit breaker: configuration (Config) and model bounds.               *)
(***************************************************************************)
FailureThreshold == 2
RecoveryTimeout == 2
SuccessThreshold == 2
RequestTimeout == 1
MaxConcurrentCalls == 1

\* Number of goroutines that call Breaker.Call, and the cap on failureCount
\* (the code never resets it while the breaker cycles Open -> HalfOpen -> Open).
NumCallers == 2
MaxFailureCount == 4

Callers == 1..NumCallers

StateClosed == "Closed"
StateOpen == "Open"
StateHalfOpen == "HalfOpen"

ErrCircuitOpen == "ErrCircuitOpen"
ErrTooManyCalls == "ErrTooManyCalls"
ErrRequestTimeout == "ErrRequestTimeout"
\* nil, an error returned by the wrapped function itself, and ctx.Err() of a
\* cancelled context
NoErr == "nil"
ErrFn == "ErrFn"
ErrCanceled == "context.Canceled"

VARIABLES
    \* circuit breaker
    b,        \* the Breaker: state, failureCount, successCount, activeCalls, and
              \* sinceLastFailure = time.Now().Sub(lastFailureTime)
    calls,    \* per caller: the position of its Breaker.Call and of the goroutine running fn
    obs,      \* history: streaks of recorded results, read only by the properties
    \* priority queue
    queues,   \* Queue.queues: per priority, the requests in the buffered channel
    closed,   \* per priority, whether Stop has closed the channel
    shutdown, \* whether Queue.shutdown is closed
    reqs,     \* per request: where it is, its priority, attempt, the values sent on Result
    workers,  \* per worker goroutine: its position, batch, ticker
    started,  \* whether Start has run
    stop,     \* the position of Stop
    panicked, \* whether the process has died of a send on a closed channel
    tracing,  \* history switch: whether the order of the requests is recorded
    \* hierarchical cache
    l1,       \* HierarchicalCache.l1Cache: per key, the Memory-tier entry
    l2,       \* the cache_entries table: per key, the row that a query can see
    l3,       \* what the L3CacheClient holds: per key, the stored data
    evictChan,\* HierarchicalCache.evictChan: the keys waiting for evictionWorker
    config,   \* HierarchicalCache.config: EvictionPolicy and L1MaxItems, and
              \* whether HierarchicalCache.l3Client is not nil, and the keys
              \* that the callers of the cache use
    clients,  \* per caller of the cache: the position of its Get, Set or Delete
    lastSet,  \* history: the most recent Set of the key Watched, read only by the properties
    \* offline detector
    services, \* OfflineDetector.services: per service, whether it is Critical
    det,      \* the OfflineDetector: mode, status, the position of monitorServices
              \* (which holds mutex while it polls), and history
    readers,  \* per caller of GetMode or GetServiceStatus: its position
    \* offline mode manager
    mgr,      \* per caller of GetVulnerabilityData: its position, and history
    localDB,  \* whether vulnerability_cache holds a row that fetchFromLocalDB selects
    \* GitHub client
    gh,       \* lastRateLimit, and the position of the caller of makeRequest
    \* the cache's locks
    lk        \* who holds l1Mutex and metrics.mutex, and the positions of a Set and
              \* of a Stats that take them

bvars == <<b, calls, obs>>
qvars == <<queues, closed, shutdown, reqs, workers, started, stop, panicked, tracing>>
cvars == <<l1, l2, l3, evictChan, config, clients, lastSet>>
dvars == <<services, det, readers>>
mvars == <<mgr, localDB>>
gvars == <<gh>>
lvars == <<lk>>
vars == <<b, calls, obs, queues, closed, shutdown, reqs, workers, started, stop, panicked,
          tracing, l1, l2, l3, evictChan, config, clients, lastSet,
          services, det, readers, mgr, localDB, gh, lk>>

(***************************************************************************)
(* Time.  The code compares two durations with a threshold:               *)
(* now.Sub(lastFailureTime) >= RecoveryTimeout, and callCtx's deadline     *)
(* RequestTimeout after its creation.  Each is kept as the time elapsed,   *)
(* advanced by Tick and saturating at its threshold (beyond it the         *)
(* comparison cannot change), so that the clock needs no upper bound.      *)
(*                                                                         *)
(* Breaker.New: StateClosed, all counters zero.  lastFailureTime is the    *)
(* zero time.Time, which lies more than any RecoveryTimeout in the past.   *)
(***************************************************************************)
New ==
    [state |-> StateClosed, failureCount |-> 0, successCount |-> 0,
     sinceLastFailure |-> RecoveryTimeout, activeCalls |-> 0]

\* beforeCall without the recovery check: an Open breaker always lets the call probe
beforeCall_NoRecoveryCheck(br) ==
    CASE br.state = StateClosed ->
            [b |-> br, state |-> StateClosed, err |-> NoErr]
      [] br.state = StateOpen ->
            [b |-> [br EXCEPT !.state = StateHalfOpen,
                              !.activeCalls = 0,
                              !.successCount = 0],
             state |-> StateHalfOpen, err |-> NoErr]
      [] br.state = StateHalfOpen ->
            IF br.activeCalls >= MaxConcurrentCalls
            THEN [b |-> br, state |-> StateHalfOpen, err |-> ErrTooManyCalls]
            ELSE [b |-> [br EXCEPT !.activeCalls = @ + 1],
                  state |-> StateHalfOpen, err |-> NoErr]
      [] OTHER -> [b |-> br, state |-> StateClosed, err |-> NoErr]

\* beforeCall with > for >= in the recovery check
beforeCall_StrictRecovery(br) ==
    CASE br.state = StateClosed ->
            [b |-> br, state |-> StateClosed, err |-> NoErr]
      [] br.state = StateOpen ->
            IF br.sinceLastFailure > RecoveryTimeout
            THEN [b |-> [br EXCEPT !.state = StateHalfOpen,
                                   !.activeCalls = 0,
                                   !.successCount = 0],
                  state |-> StateHalfOpen, err |-> NoErr]
            ELSE [b |-> br, state |-> StateOpen, err |-> ErrCircuitOpen]
      [] br.state = StateHalfOpen ->
            IF br.activeCalls >= MaxConcurrentCalls
            THEN [b |-> br, state |-> StateHalfOpen, err |-> ErrTooManyCalls]
            ELSE [b |-> [br EXCEPT !.activeCalls = @ + 1],
                  state |-> StateHalfOpen, err |-> NoErr]
      [] OTHER -> [b |-> br, state |-> StateClosed, err |-> NoErr]

\* beforeCall: the returned (State, error) and the breaker after it
beforeCall(br) ==
    CASE br.state = StateClosed ->
            [b |-> br, state |-> StateClosed, err |-> NoErr]
      [] br.state = StateOpen ->
            IF br.sinceLastFailure >= RecoveryTimeout
            THEN [b |-> [br EXCEPT !.state = StateHalfOpen,
                                   !.activeCalls = 0,
                                   !.successCount = 0],
                  state |-> StateHalfOpen, err |-> NoErr]
            ELSE [b |-> br, state |-> StateOpen, err |-> ErrCircuitOpen]
      [] br.state = StateHalfOpen ->
            IF br.activeCalls >= MaxConcurrentCalls
            THEN [b |-> br, state |-> StateHalfOpen, err |-> ErrTooManyCalls]
            ELSE [b |-> [br EXCEPT !.activeCalls = @ + 1],
                  state |-> StateHalfOpen, err |-> NoErr]
      [] OTHER -> [b |-> br, state |-> StateClosed, err |-> NoErr]

\* afterCall(isHalfOpen)
afterCall(br, isHalfOpen) ==
    IF isHalfOpen THEN [br EXCEPT !.activeCalls = @ - 1] ELSE br

\* onFailure with > for >= in the threshold test
onFailure_StrictThreshold(br) ==
    LET b1 == [br EXCEPT !.failureCount = @ + 1, !.sinceLastFailure = 0]
    IN  CASE b1.state = StateClosed ->
                IF b1.failureCount > FailureThreshold
                THEN [b1 EXCEPT !.state = StateOpen]
                ELSE b1
          [] b1.state = StateHalfOpen ->
                [b1 EXCEPT !.state = StateOpen, !.successCount = 0]
          [] OTHER -> b1

\* onFailure that forgets to reset successCount when a probe fails
onFailure_KeepsSuccessCount(br) ==
    LET b1 == [br EXCEPT !.failureCount = @ + 1, !.sinceLastFailure = 0]
    IN  CASE b1.state = StateClosed ->
                IF b1.failureCount >= FailureThreshold
                THEN [b1 EXCEPT !.state = StateOpen]
                ELSE b1
          [] b1.state = StateHalfOpen ->
                [b1 EXCEPT !.state = StateOpen]
          [] OTHER -> b1

onFailure(br) ==
    LET b1 == [br EXCEPT !.failureCount = @ + 1, !.sinceLastFailure = 0]
    IN  CASE b1.state = StateClosed ->
                IF b1.failureCount >= FailureThreshold
                THEN [b1 EXCEPT !.state = StateOpen]
                ELSE b1
          [] b1.state = StateHalfOpen ->
                [b1 EXCEPT !.state = StateOpen, !.successCount = 0]
          [] OTHER -> b1

\* onSuccess with > for >= in the threshold test
onSuccess_StrictThreshold(br) ==
    CASE br.state = StateClosed -> [br EXCEPT !.failureCount = 0]
      [] br.state = StateHalfOpen ->
            LET b1 == [br EXCEPT !.successCount = @ + 1]
            IN  IF b1.successCount > SuccessThreshold
                THEN [b1 EXCEPT !.state = StateClosed,
                                !.failureCount = 0,
                                !.successCount = 0]
                ELSE b1
      [] OTHER -> br

onSuccess(br) ==
    CASE br.state = StateClosed -> [br EXCEPT !.failureCount = 0]
      [] br.state = StateHalfOpen ->
            LET b1 == [br EXCEPT !.successCount = @ + 1]
            IN  IF b1.successCount >= SuccessThreshold
                THEN [b1 EXCEPT !.state = StateClosed,
                                !.failureCount = 0,
                                !.successCount = 0]
                ELSE b1
      [] OTHER -> br

\* onResult that counts only the wrapped function's own errors as failures
onResult_FnErrorsOnly(br, err) ==
    IF err = ErrFn THEN onFailure(br) ELSE onSuccess(br)

onResult(br, err) ==
    IF err # NoErr THEN onFailure(br) ELSE onSuccess(br)

resetBreaker(br) ==
    [br EXCEPT !.state = StateClosed, !.failureCount = 0,
               !.successCount = 0, !.activeCalls = 0]

(***************************************************************************)
(* History of recorded results.  failStreak: failures recorded since the   *)
(* breaker was last Closed with failureCount = 0.  succStreak: successes   *)
(* recorded in HalfOpen since the breaker last entered HalfOpen or         *)
(* recorded a failure.  Both saturate one above their threshold.           *)
(* sinceOpen: with the switch clock on, the time since the breaker last    *)
(* went from another state to Open, saturating at RecoveryTimeout.         *)
(***************************************************************************)
Min(x, y) == IF x <= y THEN x ELSE y

Observe(o, old, new, ev) ==
    [failStreak |->
        IF new.state = StateClosed /\ new.failureCount = 0 THEN 0
        ELSE IF ev = "failure" THEN Min(o.failStreak + 1, FailureThreshold + 1)
        ELSE o.failStreak,
     succStreak |->
        IF old.state # StateHalfOpen /\ new.state = StateHalfOpen THEN 0
        ELSE IF ev = "failure" THEN 0
        ELSE IF ev = "success" /\ old.state = StateHalfOpen
             THEN Min(o.succStreak + 1, SuccessThreshold + 1)
        ELSE o.succStreak,
     clock |-> o.clock,
     sinceOpen |->
        IF o.clock /\ old.state # StateOpen /\ new.state = StateOpen THEN 0
        ELSE o.sinceOpen]

NoObs == [failStreak |-> 0, succStreak |-> 0, clock |-> FALSE, sinceOpen |-> 0]

IdleCall ==
    [pc |-> "idle", admitted |-> StateClosed, elapsed |-> 0, fn |-> "none",
     ret |-> "none"]

InitBreaker ==
    /\ b = New
    /\ calls = [c \in Callers |-> IdleCall]
    /\ obs = NoObs

(***************************************************************************)
(* Breaker.Call, in the steps at which it takes the mutex or waits.        *)
(* pc: "idle" (no Call), "rejected" (Call has returned beforeCall's        *)
(* error), "running" (Call waits in its select), "deferred" (onResult is   *)
(* done, the deferred afterCall is not).  fn is the goroutine running the  *)
(* wrapped function: "none", "running", or the value it has sent on        *)
(* errChan.                                                                *)
(***************************************************************************)
\* beforeCall; on admission the deferred afterCall is registered, callCtx is
\* created and the goroutine running fn is started.
CallBegin(c) ==
    /\ calls[c].pc = "idle"
    /\ LET r == beforeCall(b)
       IN  /\ b' = r.b
           /\ obs' = Observe(obs, b, r.b, "none")
           /\ calls' = [calls EXCEPT ![c] =
                  IF r.err # NoErr
                  THEN [IdleCall EXCEPT !.pc = "rejected", !.ret = r.err]
                  ELSE [IdleCall EXCEPT !.pc = "running", !.admitted = r.state,
                                        !.fn = "running"]]
    /\ UNCHANGED <<qvars, cvars, dvars, mvars, gvars, lvars>>

\* the goroutine: errChan <- fn().  It may run on after the select has taken
\* callCtx.Done(); errChan has room for its one value, which nobody reads then.
FnReturn(c) ==
    /\ calls[c].fn = "running"
    /\ \E e \in {NoErr, ErrFn} :
          calls' = [calls EXCEPT ![c].fn = e]
    /\ UNCHANGED <<b, obs>>
    /\ UNCHANGED <<qvars, cvars, dvars, mvars, gvars, lvars>>

\* what Call does with the outcome err of its select: b.onResult(err); return err
CallResult(c, err) ==
    /\ err # NoErr => b.failureCount < MaxFailureCount
    /\ LET nb == onResult(b, err)
       IN  /\ b' = nb
           /\ obs' = Observe(obs, b, nb,
                             IF err = NoErr THEN "success" ELSE "failure")
    /\ calls' = [calls EXCEPT ![c].pc = "deferred", ![c].ret = err]
    /\ UNCHANGED <<qvars, cvars, dvars, mvars, gvars, lvars>>

\* case err := <-errChan
SelectResult(c) ==
    /\ calls[c].pc = "running"
    /\ calls[c].fn \in {NoErr, ErrFn}
    /\ CallResult(c, calls[c].fn)

\* case <-callCtx.Done(), callCtx = context.WithTimeout(ctx, RequestTimeout)
\* being done because its deadline has passed
SelectDeadline(c) ==
    /\ calls[c].pc = "running"
    /\ calls[c].elapsed >= RequestTimeout
    /\ CallResult(c, ErrRequestTimeout)

\* case <-callCtx.Done(), callCtx being done because the caller has cancelled
\* the ctx it passed to Call, before the deadline
SelectCancelled(c) ==
    /\ calls[c].pc = "running"
    /\ calls[c].elapsed < RequestTimeout
    /\ CallResult(c, ErrRequestTimeout)

\* the deferred afterCall(state == StateHalfOpen); Call returns.  The
\* goroutine, if it still runs, can reach nothing of the breaker any more.
CallEnd(c) ==
    /\ calls[c].pc = "deferred"
    /\ LET nb == afterCall(b, calls[c].admitted = StateHalfOpen)
       IN  /\ b' = nb
           /\ obs' = Observe(obs, b, nb, "none")
    /\ calls' = [calls EXCEPT ![c] = IdleCall]
    /\ UNCHANGED <<qvars, cvars, dvars, mvars, gvars, lvars>>

\* the caller has seen the error of its rejected Call
NextCall(c) ==
    /\ calls[c].pc = "rejected"
    /\ calls' = [calls EXCEPT ![c] = IdleCall]
    /\ UNCHANGED <<b, obs>>
    /\ UNCHANGED <<qvars, cvars, dvars, mvars, gvars, lvars>>

Reset ==
    /\ b' = resetBreaker(b)
    /\ b' # b
    /\ obs' = Observe(obs, b, b', "none")
    /\ UNCHANGED calls
    /\ UNCHANGED <<qvars, cvars, dvars, mvars, gvars, lvars>>

\* one unit of time passes
Tick ==
    /\ b' = [b EXCEPT !.sinceLastFailure = Min(@ + 1, RecoveryTimeout)]
    /\ calls' = [c \in Callers |->
          IF calls[c].pc = "running"
          THEN [calls[c] EXCEPT !.elapsed = Min(@ + 1, RequestTimeout)]
          ELSE calls[c]]
    /\ obs' = [obs EXCEPT !.sinceOpen = IF obs.clock THEN Min(@ + 1, RecoveryTimeout) ELSE @]
    /\ <<b', calls', obs'>> # <<b, calls, obs>>
    /\ UNCHANGED <<qvars, cvars, dvars, mvars, gvars, lvars>>

NextBreaker ==
    \/ \E c \in Callers : CallBegin(c)
    \/ \E c \in Callers : FnReturn(c)
    \/ \E c \in Callers : SelectResult(c)
    \/ \E c \in Callers : SelectDeadline(c)
    \/ \E c \in Callers : SelectCancelled(c)
    \/ \E c \in Callers : CallEnd(c)
    \/ \E c \in Callers : NextCall(c)
    \/ Reset
    \/ Tick

(***************************************************************************)
(* Priority queue: configuration (QueueConfig) and model bounds.           *)
(***************************************************************************)
\* Workers: up to NumWorkers in SpecQueue, LiveWorkers in SpecQueueLive
NumWorkers == 2
LiveWorkers == 1
MaxRetries == 1
BatchSize == 2
QueueSize == 4

\* Number of requests that can be in the queue's hands at once; a request whose
\* result has been read makes room for a new one.
NumReqs == 2

Reqs == 1..NumReqs
Workers == 1..NumWorkers

PriorityLow == "Low"
PriorityNormal == "Normal"
PriorityHigh == "High"
PriorityCritical == "Critical"
Priority == {PriorityLow, PriorityNormal, PriorityHigh, PriorityCritical}

\* getNextRequest's order of inspection
priorities == <<PriorityCritical, PriorityHigh, PriorityNormal, PriorityLow>>

\* NewQueue: the capacity of each priority's channel
capacity(p) == IF p = PriorityNormal THEN QueueSize \div 2 ELSE QueueSize \div 4

ErrQueueShutdown == "ErrQueueShutdown"
ErrRateLimit == "rate limit exceeded"
\* ctx.Err() once processRequest's 30 s context has expired
ErrDeadlineExceeded == "context.DeadlineExceeded"

\* the results the work of a request can return
FnOutcomes == {NoErr, ErrCircuitOpen, ErrFn}

isRetryableError(err) ==
    /\ err # NoErr
    /\ err \in {ErrCircuitOpen, ErrTooManyCalls, ErrRequestTimeout, ErrRateLimit}

\* A request: st is where it is (new, queued, batched, spawned, running, waiting,
\* done, refused); result is what has been sent on req.Result; taken counts the
\* receives of it from its channel.  Two history fields, kept only when tracing,
\* name a request whose work has not begun yet: after, the request that was just in front of it in its
\* buffer when it was enqueued; behind, a Critical request that waited in its
\* buffer while this one waited in the Low buffer and a worker began to look for
\* a request.  0 is none.
NewRequest ==
    [st |-> "new", prio |-> PriorityLow, attempt |-> 0, result |-> <<>>, taken |-> 0,
     after |-> 0, behind |-> 0]

\* history: the work of request r begins
Begun(rq, r) ==
    [x \in Reqs |->
        [rq[x] EXCEPT !.after = IF @ = r THEN 0 ELSE @,
                      !.behind = IF @ = r THEN 0 ELSE @]]

\* history: a worker begins to look for a request
Sighted(rq, qs) ==
    [x \in Reqs |->
        IF /\ rq[x].st = "queued"
           /\ rq[x].prio = PriorityLow
           /\ rq[x].behind = 0
           /\ qs[PriorityCritical] # <<>>
        THEN [rq[x] EXCEPT !.behind = Head(qs[PriorityCritical])]
        ELSE rq[x]]

NewWorker == [pc |-> "idle", batch |-> <<>>, idx |-> 0]

\* NewQueue
InitQueue ==
    /\ queues = [p \in Priority |-> <<>>]
    /\ closed = [p \in Priority |-> FALSE]
    /\ shutdown = FALSE
    /\ reqs = [r \in Reqs |-> NewRequest]
    /\ workers = [w \in Workers |-> NewWorker]
    /\ started = FALSE
    /\ stop = "idle"
    /\ panicked = FALSE

\* Start on a queue configured with n workers: one goroutine per worker, each
\* with its own ticker
Start(n) ==
    /\ ~panicked
    /\ ~started
    /\ started' = TRUE
    /\ workers' = [w \in Workers |->
          IF w <= n THEN [NewWorker EXCEPT !.pc = "select"] ELSE NewWorker]
    /\ UNCHANGED <<queues, closed, shutdown, reqs, stop, panicked>>
    /\ UNCHANGED <<bvars, tracing, cvars, dvars, mvars, gvars, lvars>>

(***************************************************************************)
(* Enqueue: a select over the send on the priority's channel, ctx.Done()   *)
(* and q.shutdown.  It waits while none is ready and takes any ready one.  *)
(***************************************************************************)
\* case q.queues[priority] <- req, the channel open and not full
EnqueueSend(r, p) ==
    /\ ~panicked
    /\ reqs[r].st = "new"
    /\ ~closed[p]
    /\ Len(queues[p]) < capacity(p)
    /\ queues' = [queues EXCEPT ![p] = Append(@, r)]
    /\ reqs' = [reqs EXCEPT ![r] =
          [NewRequest EXCEPT !.st = "queued", !.prio = p,
                             !.after = IF tracing /\ queues[p] # <<>>
                                       THEN queues[p][Len(queues[p])]
                                       ELSE 0]]
    /\ UNCHANGED <<closed, shutdown, workers, started, stop, panicked>>
    /\ UNCHANGED <<bvars, tracing, cvars, dvars, mvars, gvars, lvars>>

\* case q.queues[priority] <- req, the channel closed by Stop: the send panics
EnqueueClosed(r, p) ==
    /\ ~panicked
    /\ reqs[r].st = "new"
    /\ closed[p]
    /\ panicked' = TRUE
    /\ UNCHANGED <<queues, closed, shutdown, reqs, workers, started, stop>>
    /\ UNCHANGED <<bvars, tracing, cvars, dvars, mvars, gvars, lvars>>

\* case <-ctx.Done(), the caller's ctx being done
EnqueueCancelled(r) ==
    /\ ~panicked
    /\ reqs[r].st = "new"
    /\ reqs' = [reqs EXCEPT ![r] =
          [NewRequest EXCEPT !.st = "refused", !.result = <<ErrCanceled>>]]
    /\ UNCHANGED <<queues, closed, shutdown, workers, started, stop, panicked>>
    /\ UNCHANGED <<bvars, tracing, cvars, dvars, mvars, gvars, lvars>>

\* case <-q.shutdown
EnqueueShutdown(r) ==
    /\ ~panicked
    /\ reqs[r].st = "new"
    /\ shutdown
    /\ reqs' = [reqs EXCEPT ![r] =
          [NewRequest EXCEPT !.st = "refused", !.result = <<ErrQueueShutdown>>]]
    /\ UNCHANGED <<queues, closed, shutdown, workers, started, stop, panicked>>
    /\ UNCHANGED <<bvars, tracing, cvars, dvars, mvars, gvars, lvars>>

\* the caller reads the result of its request; its next Enqueue is a new request
ReadResult(r) ==
    /\ ~panicked
    /\ reqs[r].st \in {"done", "refused"}
    /\ reqs' = [reqs EXCEPT ![r] = NewRequest]
    /\ UNCHANGED <<queues, closed, shutdown, workers, started, stop, panicked>>
    /\ UNCHANGED <<bvars, tracing, cvars, dvars, mvars, gvars, lvars>>

(***************************************************************************)
(* worker: for { select { shutdown; ticker.C; default } }                  *)
(***************************************************************************)
\* processBatch: go q.processRequest(req) for every request of the batch
processBatch(rq, batch) ==
    [r \in Reqs |->
        IF \E i \in 1..Len(batch) : batch[i] = r
        THEN [rq[r] EXCEPT !.st = "spawned"]
        ELSE rq[r]]

\* case <-q.shutdown: the batch in hand is processed and the worker returns
WorkerShutdown(w) ==
    /\ ~panicked
    /\ workers[w].pc = "select"
    /\ shutdown
    /\ reqs' = processBatch(reqs, workers[w].batch)
    /\ workers' = [workers EXCEPT ![w].pc = "exited", ![w].batch = <<>>]
    /\ UNCHANGED <<queues, closed, shutdown, started, stop, panicked>>
    /\ UNCHANGED <<bvars, tracing, cvars, dvars, mvars, gvars, lvars>>

\* a worker that does not process its batch when the ticker fires
WorkerTick_NoFlush(w) ==
    /\ ~panicked
    /\ workers[w].pc = "select"
    /\ UNCHANGED <<qvars, cvars, dvars, mvars, gvars, lvars>>
    /\ UNCHANGED <<bvars, tracing, cvars, dvars, mvars, gvars, lvars>>

\* case <-ticker.C: the worker's ticker has fired (every batchInterval) when the
\* worker comes to its select; a non-empty batch is processed
WorkerTick(w) ==
    /\ ~panicked
    /\ workers[w].pc = "select"
    /\ reqs' = processBatch(reqs, workers[w].batch)
    /\ workers' = [workers EXCEPT ![w].batch = <<>>]
    /\ UNCHANGED <<queues, closed, shutdown, started, stop, panicked>>
    /\ UNCHANGED <<bvars, tracing, cvars, dvars, mvars, gvars, lvars>>

\* default (taken only when neither channel is ready): call getNextRequest
WorkerDefault(w) ==
    /\ ~panicked
    /\ workers[w].pc = "select"
    /\ ~shutdown
    /\ workers' = [workers EXCEPT ![w].pc = "scan", ![w].idx = 1]
    /\ reqs' = IF tracing THEN Sighted(reqs, queues) ELSE reqs
    /\ UNCHANGED <<queues, closed, shutdown, started, stop, panicked>>
    /\ UNCHANGED <<bvars, tracing, cvars, dvars, mvars, gvars, lvars>>

\* the worker's loop body once getNextRequest has returned req: the batch is
\* extended and, when full, processed
takeRequest(wk, rq, r) ==
    LET batch == Append(wk.batch, r)
        \* req.Priority is not read once the request has left its channel
        rq1 == [rq EXCEPT ![r].st = "batched", ![r].taken = @ + 1,
                          ![r].prio = PriorityLow]
    IN  IF Len(batch) >= BatchSize
        THEN [worker |-> [wk EXCEPT !.pc = "select", !.idx = 0, !.batch = <<>>],
              reqs |-> processBatch(rq1, batch)]
        ELSE [worker |-> [wk EXCEPT !.pc = "select", !.idx = 0, !.batch = batch],
              reqs |-> rq1]

\* getNextRequest: one non-blocking receive, on the channel of priorities[idx].
\* A request received is returned; on an empty or closed channel the next priority
\* is tried and, after the last, nil is returned and the worker sleeps 100 ms.
WorkerScan(w) ==
    /\ ~panicked
    /\ workers[w].pc = "scan"
    /\ LET p == priorities[workers[w].idx]
       IN  IF queues[p] # <<>>
           THEN LET t == takeRequest(workers[w], reqs, Head(queues[p]))
                IN  /\ queues' = [queues EXCEPT ![p] = Tail(@)]
                    /\ workers' = [workers EXCEPT ![w] = t.worker]
                    /\ reqs' = t.reqs
           ELSE /\ workers' = [workers EXCEPT ![w] =
                      IF workers[w].idx < Len(priorities)
                      THEN [@ EXCEPT !.idx = @ + 1]
                      ELSE [@ EXCEPT !.pc = "select", !.idx = 0]]
                /\ UNCHANGED <<queues, reqs>>
    /\ UNCHANGED <<closed, shutdown, started, stop, panicked>>
    /\ UNCHANGED <<bvars, tracing, cvars, dvars, mvars, gvars, lvars>>

(***************************************************************************)
(* processRequest, one goroutine per dispatched request.                   *)
(***************************************************************************)
\* the goroutine starts: attempt 0 calls req.Fn
ReqStart(r) ==
    /\ ~panicked
    /\ reqs[r].st = "spawned"
    /\ reqs' = [Begun(reqs, r) EXCEPT ![r].st = "running", ![r].attempt = 0]
    /\ UNCHANGED <<queues, closed, shutdown, workers, started, stop, panicked>>
    /\ UNCHANGED <<bvars, tracing, cvars, dvars, mvars, gvars, lvars>>

\* afterAttempt without the return that follows req.Result <- nil: the loop goes
\* on to isRetryableError(nil), breaks, and sends lastErr (nil) as well
afterAttempt_NoReturn(attempt, err) ==
    IF err = NoErr THEN [sends |-> <<NoErr, NoErr>>, retry |-> FALSE]
    ELSE IF ~isRetryableError(err) THEN [sends |-> <<err>>, retry |-> FALSE]
    ELSE IF attempt + 1 <= MaxRetries THEN [sends |-> <<>>, retry |-> TRUE]
    ELSE [sends |-> <<err>>, retry |-> FALSE]

\* what follows req.Fn returning err in the given attempt: the values sent on
\* req.Result, and whether another attempt follows
afterAttempt(attempt, err) ==
    IF err = NoErr THEN [sends |-> <<NoErr>>, retry |-> FALSE]
    ELSE IF ~isRetryableError(err) THEN [sends |-> <<err>>, retry |-> FALSE]
    ELSE IF attempt + 1 <= MaxRetries THEN [sends |-> <<>>, retry |-> TRUE]
    ELSE [sends |-> <<err>>, retry |-> FALSE]

\* req.Fn returns
ReqAttempt(r) ==
    /\ ~panicked
    /\ reqs[r].st = "running"
    /\ \E err \in FnOutcomes :
          LET a == afterAttempt(reqs[r].attempt, err)
          IN  reqs' = [reqs EXCEPT ![r] =
                 IF a.retry
                 THEN [@ EXCEPT !.st = "waiting", !.attempt = @ + 1]
                 ELSE [@ EXCEPT !.st = "done", !.result = @ \o a.sends]]
    /\ UNCHANGED <<queues, closed, shutdown, workers, started, stop, panicked>>
    /\ UNCHANGED <<bvars, tracing, cvars, dvars, mvars, gvars, lvars>>

\* case <-time.After(retryDelay * attempt): the next attempt calls req.Fn
RetryDelay(r) ==
    /\ ~panicked
    /\ reqs[r].st = "waiting"
    /\ reqs' = [reqs EXCEPT ![r].st = "running"]
    /\ UNCHANGED <<queues, closed, shutdown, workers, started, stop, panicked>>
    /\ UNCHANGED <<bvars, tracing, cvars, dvars, mvars, gvars, lvars>>

\* case <-ctx.Done(): the request's 30 s are over while it waits to retry
RetryCtxDone(r) ==
    /\ ~panicked
    /\ reqs[r].st = "waiting"
    /\ reqs' = [reqs EXCEPT ![r].st = "done", ![r].result = @ \o <<ErrDeadlineExceeded>>]
    /\ UNCHANGED <<queues, closed, shutdown, workers, started, stop, panicked>>
    /\ UNCHANGED <<bvars, tracing, cvars, dvars, mvars, gvars, lvars>>

(***************************************************************************)
(* Stop: close(q.shutdown); close every channel (in map order); wg.Wait(). *)
(***************************************************************************)
StopBegin ==
    /\ ~panicked
    /\ started
    /\ stop = "idle"
    /\ shutdown' = TRUE
    /\ stop' = "closing"
    /\ UNCHANGED <<queues, closed, reqs, workers, started, panicked>>
    /\ UNCHANGED <<bvars, tracing, cvars, dvars, mvars, gvars, lvars>>

\* the loop over q.queues.  The four closes are one step here: a channel's
\* close matters to the senders and receivers of that channel alone.
StopClose ==
    /\ ~panicked
    /\ stop = "closing"
    /\ closed' = [p \in Priority |-> TRUE]
    /\ stop' = "waiting"
    /\ UNCHANGED <<queues, shutdown, reqs, workers, started, panicked>>
    /\ UNCHANGED <<bvars, tracing, cvars, dvars, mvars, gvars, lvars>>

\* wg.Wait() returns once every worker has run its deferred wg.Done()
StopReturn ==
    /\ ~panicked
    /\ stop = "waiting"
    /\ \A w \in Workers : workers[w].pc \in {"exited", "idle"}
    /\ stop' = "returned"
    /\ UNCHANGED <<queues, closed, shutdown, reqs, workers, started, panicked>>
    /\ UNCHANGED <<bvars, tracing, cvars, dvars, mvars, gvars, lvars>>

(***************************************************************************)
(* Hierarchical cache (package cache): configuration and model bounds.    *)
(***************************************************************************)
L1MaxItems == 1
\* and the largest L1MaxItems of the configurations under which eviction is checked
MaxItems == 2
L1TTL == 2
L2TTL == 1
Policies == {"LRU", "LFU", "TTL"}
CacheKeys == {"k1", "k2"}
\* The configurations under which eviction is checked: every policy, with
\* L1MaxItems 1 and an L3 client, and with a larger L1MaxItems and none.
CacheConfigs ==
    {cf \in [EvictionPolicy : Policies, L1MaxItems : 1..MaxItems, l3Client : BOOLEAN,
             keys : {CacheKeys}] :
        cf.l3Client = (cf.L1MaxItems = 1)}
DefaultCacheConfig ==
    [EvictionPolicy |-> "LRU", L1MaxItems |-> L1MaxItems, l3Client |-> TRUE,
     keys |-> CacheKeys]

\* The ttl given to Set is 1..MaxTTL.
MaxTTL == 2

\* Get is not called on an entry of l1Cache whose HitCount is MaxHits.
MaxHits == 1

\* 24 * time.Hour, in the unit of the ttls
Day == 2

CacheClients == {"c1"}
\* the callers of Get: the client, and a second goroutine that only reads
Getters == {"c1", "c2"}

\* A Go value that encoding/json does not give back as it was (an int, a struct)
\* and the value json.Unmarshal makes of its encoding (a float64, a map).
\* Set is given the former.
Values == {"int1", "float1"}
SetValues == {"int1"}
Marshal(v) == "1"
Unmarshal(data) == "float1"

(***************************************************************************)
(* Time.  An entry's ExpiresAt is kept as the time left until it, counted  *)
(* down by CacheTick.  No operation runs at the very instant of an expiry, *)
(* so that time.Now().After(ExpiresAt) and expires_at > datetime('now')    *)
(* are both "no time is left".  An expired row of cache_entries and an     *)
(* expired entry of the remote cache are seen by no query: they are kept   *)
(* as NoRow.  An expired entry of l1Cache stays in the map until it is     *)
(* evicted, overwritten or cleaned up.                                     *)
(***************************************************************************)
NoEntry == [in |-> FALSE, val |-> "float1", left |-> 0, acc |-> 0, hits |-> 0]
NoRow == [data |-> "", left |-> 0]

L1Keys(m) == {k \in CacheKeys : m[k].in}

\* getFromL1 without the check of ExpiresAt
getFromL1_NoExpiry(m, k) ==
    IF ~m[k].in THEN [found |-> FALSE, val |-> "none", evict |-> {}]
    ELSE [found |-> TRUE, val |-> m[k].val, evict |-> {}]

\* getFromL1: the entry's value if it exists and has not expired; an expired
\* entry is offered to evictChan (the send is dropped when the channel is full)
getFromL1(m, k) ==
    IF ~m[k].in THEN [found |-> FALSE, val |-> "none", evict |-> {}]
    ELSE IF m[k].left = 0 THEN [found |-> FALSE, val |-> "none", evict |-> {k}]
    ELSE [found |-> TRUE, val |-> m[k].val, evict |-> {}]

\* getFromL1 on a hit: entry.AccessTime = time.Now(); entry.HitCount++.
\* AccessTime is read under LRU only and HitCount under LFU only (by
\* evictFromL1): the field that the policy does not read is not kept.
touchL1(m, k) ==
    [m EXCEPT ![k].acc = 0, ![k].hits = IF config.EvictionPolicy = "LFU" THEN @ + 1 ELSE @]

\* an evictFromL1 that deletes any entry
keyToEvict_Any(m) == L1Keys(m)

\* evictFromL1, the loop over the map: the keys it can end with.  The loop
\* starts from time.Now() (LRU), the largest int64 (LFU) or time.Now().Add(24h)
\* (TTL) and moves to every entry strictly before or below what it has; the
\* order of a map's range is not fixed, so of equal entries it can keep any.
keyToEvict(m) ==
    CASE config.EvictionPolicy = "LRU" ->
            {k \in L1Keys(m) : /\ m[k].acc > 0
                               /\ \A j \in L1Keys(m) : m[j].acc <= m[k].acc}
      [] config.EvictionPolicy = "LFU" ->
            {k \in L1Keys(m) : \A j \in L1Keys(m) : m[j].hits >= m[k].hits}
      [] OTHER ->
            {k \in L1Keys(m) : /\ m[k].left < Day
                               /\ \A j \in L1Keys(m) : m[j].left >= m[k].left}

\* evictFromL1: the key the loop ended with is deleted; if it ended with none
\* (keyToEvict is still ""), nothing is deleted
evictFromL1(m) ==
    IF keyToEvict(m) = {} THEN {m}
    ELSE {[m EXCEPT ![x] = NoEntry] : x \in keyToEvict(m)}

\* setToL1: a full map evicts first; the entry expires ttl from now, its
\* AccessTime is now and its HitCount 0
setToL1(m, k, v, ttl) ==
    {[m2 EXCEPT ![k] = [in |-> TRUE, val |-> v, left |-> ttl, acc |-> 0, hits |-> 0]] :
        m2 \in (IF Cardinality(L1Keys(m)) >= config.L1MaxItems THEN evictFromL1(m) ELSE {m})}

\* getFromL2: SELECT value ... WHERE key = ? AND expires_at > datetime('now'),
\* then json.Unmarshal
getFromL2(t, k) ==
    IF t[k].left > 0 THEN [found |-> TRUE, val |-> Unmarshal(t[k].data)]
    ELSE [found |-> FALSE, val |-> "none"]

\* setToL2: json.Marshal, then INSERT OR REPLACE
setToL2(t, k, v, ttl) == [t EXCEPT ![k] = [data |-> Marshal(v), left |-> ttl]]

\* getFromL3: l3Client.Get, then json.Unmarshal
getFromL3(t, k) ==
    IF t[k].left > 0 THEN [found |-> TRUE, val |-> Unmarshal(t[k].data)]
    ELSE [found |-> FALSE, val |-> "none"]

\* setToL3: json.Marshal, then l3Client.Set
setToL3(t, k, v, ttl) == [t EXCEPT ![k] = [data |-> Marshal(v), left |-> ttl]]

(***************************************************************************)
(* History: the most recent Set of one key, Watched (the keys are alike),   *)
(* once it has returned nil and as long as no Set or Delete of the key has *)
(* begun since.  val and left are its value and what is left of its ttl,   *)
(* counted down below zero to HistoryFloor.  A Delete of the key that      *)
(* begins before that ttl has elapsed makes val "deleting", and "deleted"  *)
(* once it has returned with both its database and its L3 delete done.     *)
(* In all other cases the history is NoSet.                                *)
(***************************************************************************)
Watched == "k1"
HistoryFloor == 0 - (L1TTL + L2TTL)
NoSet == [val |-> "none", left |-> HistoryFloor]

\* The history is kept unless it starts as NoHistory.
NoHistory == [val |-> "untracked", left |-> HistoryFloor]
Track(h) == IF lastSet = NoHistory THEN lastSet ELSE h

IdleClient ==
    [pc |-> "idle", key |-> "k1", val |-> "none", ttl |-> 0, ret |-> "none", out |-> "none",
     had |-> FALSE]

\* History of a Set, kept in the client's had until its setToL2 is over:
\* whether l1Cache held an entry of the key when Set was called (kept with
\* the history lastSet only).
\* History of a Set, kept in the client's out while the Set runs: whether its
\* setToL1 removed an entry of another key ("none" if not), and whether the
\* map held an entry that the policy ranks after the removed one ("chosen")
\* or not ("only").
Before(m, j, k) ==
    CASE config.EvictionPolicy = "LRU" -> m[j].acc > m[k].acc
      [] config.EvictionPolicy = "LFU" -> m[j].hits < m[k].hits
      [] OTHER -> m[j].left < m[k].left
Removed(m, m2) == L1Keys(m) \ L1Keys(m2)
Outcome(m, m2) ==
    IF Removed(m, m2) = {} THEN "none"
    ELSE IF \E k \in Removed(m, m2), j \in L1Keys(m) : Before(m, k, j) THEN "chosen"
    ELSE "only"

\* NewHierarchicalCache: an empty map, a table and a remote cache with no entries
InitCache ==
    /\ l1 = [k \in CacheKeys |-> NoEntry]
    /\ l2 = [k \in CacheKeys |-> NoRow]
    /\ l3 = [k \in CacheKeys |-> NoRow]
    /\ evictChan = {}
    /\ clients = [c \in Getters |->
          IF c \in CacheClients THEN IdleClient ELSE [IdleClient EXCEPT !.pc = "off"]]

(***************************************************************************)
(* Get, Set and Delete, in the steps at which they go to a tier.  A        *)
(* client's pc is "idle" between calls ("off" for a goroutine that the      *)
(* program does not run; ret is then what its last call                    *)
(* returned: a value, "miss", "nil" or "error") or the tier step that      *)
(* comes next.  Every query of the database and every call of the L3       *)
(* client can fail; a cache whose l3Client is nil makes no such call.      *)
(***************************************************************************)
\* Get is called
Get(c, k) ==
    /\ clients[c].pc = "idle"
    /\ k \in config.keys
    /\ config.EvictionPolicy = "LFU" => l1[k].hits < MaxHits
    /\ clients' = [clients EXCEPT ![c] = [IdleClient EXCEPT !.pc = "getL1", !.key = k]]
    /\ UNCHANGED <<l1, l2, l3, evictChan, config, lastSet>>
    /\ UNCHANGED <<bvars, qvars, dvars, mvars, gvars, lvars>>

\* getFromL1; a hit returns the value
GetL1(c) ==
    /\ clients[c].pc = "getL1"
    /\ LET g == getFromL1(l1, clients[c].key)
       IN  /\ evictChan' = evictChan \cup g.evict
           /\ clients' = [clients EXCEPT ![c] =
                 IF g.found THEN [IdleClient EXCEPT !.key = clients[c].key, !.ret = g.val]
                 ELSE [@ EXCEPT !.pc = "getL2"]]
           /\ l1' = IF g.found THEN touchL1(l1, clients[c].key) ELSE l1
    /\ UNCHANGED <<l2, l3, config, lastSet>>
    /\ UNCHANGED <<bvars, qvars, dvars, mvars, gvars, lvars>>

\* getFromL2; a failed query is a miss
GetL2(c) ==
    /\ clients[c].pc = "getL2"
    /\ \E ok \in BOOLEAN :
          LET g == getFromL2(l2, clients[c].key)
          IN  clients' = [clients EXCEPT ![c] =
                 IF ok /\ g.found
                 THEN [@ EXCEPT !.pc = "promoteL1", !.val = g.val]
                 ELSE [@ EXCEPT !.pc = "getL3"]]
    /\ UNCHANGED <<config, l1, l2, l3, evictChan, lastSet>>
    /\ UNCHANGED <<bvars, qvars, dvars, mvars, gvars, lvars>>

\* after a hit in L2: setToL1 with L1TTL, return the value
GetPromoteL1(c) ==
    /\ clients[c].pc = "promoteL1"
    /\ l1' \in setToL1(l1, clients[c].key, clients[c].val, L1TTL)
    /\ clients' = [clients EXCEPT ![c] =
          [IdleClient EXCEPT !.key = clients[c].key, !.ret = clients[c].val]]
    /\ UNCHANGED <<config, l2, l3, evictChan, lastSet>>
    /\ UNCHANGED <<bvars, qvars, dvars, mvars, gvars, lvars>>

\* getFromL3; a miss returns (nil, false)
GetL3(c) ==
    /\ clients[c].pc = "getL3"
    /\ \E ok \in BOOLEAN :
          LET g == getFromL3(l3, clients[c].key)
          IN  clients' = [clients EXCEPT ![c] =
                 IF config.l3Client /\ ok /\ g.found
                 THEN [@ EXCEPT !.pc = "promoteL3", !.val = g.val]
                 ELSE [IdleClient EXCEPT !.key = clients[c].key, !.ret = "miss"]]
    /\ UNCHANGED <<config, l1, l2, l3, evictChan, lastSet>>
    /\ UNCHANGED <<bvars, qvars, dvars, mvars, gvars, lvars>>

\* after a hit in L3: setToL1 with L1TTL
GetPromoteL3(c) ==
    /\ clients[c].pc = "promoteL3"
    /\ l1' \in setToL1(l1, clients[c].key, clients[c].val, L1TTL)
    /\ clients' = [clients EXCEPT ![c].pc = "promoteL2"]
    /\ UNCHANGED <<config, l2, l3, evictChan, lastSet>>
    /\ UNCHANGED <<bvars, qvars, dvars, mvars, gvars, lvars>>

\* then setToL2 with L2TTL, its error ignored, and return the value
GetPromoteL2(c) ==
    /\ clients[c].pc = "promoteL2"
    /\ \E ok \in BOOLEAN :
          l2' = IF ok THEN setToL2(l2, clients[c].key, clients[c].val, L2TTL) ELSE l2
    /\ clients' = [clients EXCEPT ![c] =
          [IdleClient EXCEPT !.key = clients[c].key, !.ret = clients[c].val]]
    /\ UNCHANGED <<config, l1, l3, evictChan, lastSet>>
    /\ UNCHANGED <<bvars, qvars, dvars, mvars, gvars, lvars>>

\* Set: setToL1
Set(c, k, v, ttl) ==
    /\ clients[c].pc = "idle"
    /\ k \in config.keys
    /\ l1' \in setToL1(l1, k, v, ttl)
    /\ clients' = [clients EXCEPT ![c] =
          [IdleClient EXCEPT !.pc = "setL2", !.key = k, !.val = v, !.ttl = ttl,
                             !.out = Outcome(l1, l1'),
                             !.had = (lastSet # NoHistory /\ l1[k].in)]]
    /\ lastSet' = Track(IF k = Watched THEN NoSet ELSE lastSet)
    /\ UNCHANGED <<config, l2, l3, evictChan>>
    /\ UNCHANGED <<bvars, qvars, dvars, mvars, gvars, lvars>>

\* setToL2; its error is returned by Set
SetL2(c) ==
    /\ clients[c].pc = "setL2"
    /\ \E ok \in BOOLEAN :
          IF ok
          THEN /\ l2' = setToL2(l2, clients[c].key, clients[c].val, clients[c].ttl)
               /\ clients' = [clients EXCEPT ![c].pc = "setL3", ![c].had = FALSE]
          ELSE /\ l2' = l2
               /\ clients' = [clients EXCEPT ![c] =
                     [IdleClient EXCEPT !.key = clients[c].key, !.ret = "error"]]
    /\ UNCHANGED <<config, l1, l3, evictChan, lastSet>>
    /\ UNCHANGED <<bvars, qvars, dvars, mvars, gvars, lvars>>

\* setToL3; its error is printed, Set returns nil
SetL3(c) ==
    /\ clients[c].pc = "setL3"
    /\ \E ok \in BOOLEAN :
          l3' = IF config.l3Client /\ ok
                THEN setToL3(l3, clients[c].key, clients[c].val, clients[c].ttl)
                ELSE l3
    /\ lastSet' = Track(IF clients[c].key = Watched
                        THEN [val |-> clients[c].val, left |-> clients[c].ttl]
                        ELSE lastSet)
    /\ clients' = [clients EXCEPT ![c] =
          [IdleClient EXCEPT !.key = clients[c].key, !.ret = "nil"]]
    /\ UNCHANGED <<config, l1, l2, evictChan>>
    /\ UNCHANGED <<bvars, qvars, dvars, mvars, gvars, lvars>>

\* Delete: delete(h.l1Cache, key)
Delete(c, k) ==
    /\ clients[c].pc = "idle"
    /\ k \in config.keys
    /\ l1' = [l1 EXCEPT ![k] = NoEntry]
    /\ clients' = [clients EXCEPT ![c] =
          [IdleClient EXCEPT !.pc = "deleteL2", !.key = k]]
    /\ lastSet' = Track(IF k # Watched THEN lastSet
                        ELSE IF lastSet.val \in Values /\ lastSet.left > 0
                             THEN [val |-> "deleting", left |-> HistoryFloor]
                        ELSE NoSet)
    /\ UNCHANGED <<config, l2, l3, evictChan>>
    /\ UNCHANGED <<bvars, qvars, dvars, mvars, gvars, lvars>>

\* a Delete that leaves the table alone
DeleteL2_MemoryOnly(c) ==
    /\ clients[c].pc = "deleteL2"
    /\ clients' = [clients EXCEPT ![c].pc = "deleteL3"]
    /\ UNCHANGED <<config, l1, l2, l3, evictChan, lastSet>>
    /\ UNCHANGED <<bvars, qvars, dvars, mvars, gvars, lvars>>

\* DELETE FROM cache_entries WHERE key = ?, its error ignored
DeleteL2(c) ==
    /\ clients[c].pc = "deleteL2"
    /\ \E ok \in BOOLEAN :
          /\ l2' = IF ok THEN [l2 EXCEPT ![clients[c].key] = NoRow] ELSE l2
          /\ lastSet' = Track(IF clients[c].key = Watched /\ ~ok THEN NoSet ELSE lastSet)
    /\ clients' = [clients EXCEPT ![c].pc = "deleteL3"]
    /\ UNCHANGED <<config, l1, l3, evictChan>>
    /\ UNCHANGED <<bvars, qvars, dvars, mvars, gvars, lvars>>

\* l3Client.Delete, its error ignored; Delete returns nil
DeleteL3(c) ==
    /\ clients[c].pc = "deleteL3"
    /\ \E ok \in BOOLEAN :
          /\ l3' = IF config.l3Client /\ ok THEN [l3 EXCEPT ![clients[c].key] = NoRow] ELSE l3
          /\ lastSet' = Track(IF clients[c].key # Watched THEN lastSet
                              ELSE IF ok /\ lastSet.val = "deleting"
                                   THEN [lastSet EXCEPT !.val = "deleted"]
                              ELSE NoSet)
    /\ clients' = [clients EXCEPT ![c] =
          [IdleClient EXCEPT !.key = clients[c].key, !.ret = "nil"]]
    /\ UNCHANGED <<config, l1, l2, evictChan>>
    /\ UNCHANGED <<bvars, qvars, dvars, mvars, gvars, lvars>>

\* evictionWorker: a key received from evictChan is deleted from l1Cache
evictionWorker ==
    /\ \E k \in evictChan :
          /\ evictChan' = evictChan \ {k}
          /\ l1' = [l1 EXCEPT ![k] = NoEntry]
    /\ UNCHANGED <<config, l2, l3, clients, lastSet>>
    /\ UNCHANGED <<bvars, qvars, dvars, mvars, gvars, lvars>>

\* cleanup, on cleanupWorker's ticker: the expired entries of l1Cache are deleted
\* (and the expired rows of cache_entries, which no query sees)
cleanup ==
    /\ \E k \in CacheKeys : l1[k].in /\ l1[k].left = 0
    /\ l1' = [k \in CacheKeys |-> IF l1[k].in /\ l1[k].left = 0 THEN NoEntry ELSE l1[k]]
    /\ UNCHANGED <<config, l2, l3, evictChan, clients, lastSet>>
    /\ UNCHANGED <<bvars, qvars, dvars, mvars, gvars, lvars>>

\* An entry's AccessTime is kept as its place among the AccessTimes of the map,
\* counted back from now: 0 is now, 1 the latest earlier instant, and so on.
\* Earlier is the place once time has passed.
Earlier(m, k) == Cardinality({m[j].acc : j \in {i \in L1Keys(m) : m[i].acc <= m[k].acc}})

\* time passes, between two operations and with evictionWorker waiting for a key:
\* what is left of every ttl shrinks
CacheTick ==
    /\ \A c \in Getters : clients[c].pc \in {"idle", "off"}
    /\ lk.set.pc = "idle" /\ lk.stats = "idle"
    /\ evictChan = {}
    /\ l1' = [k \in CacheKeys |->
          IF l1[k].in
          THEN [l1[k] EXCEPT !.left = IF @ > 0 THEN @ - 1 ELSE 0, 
                           !.acc = IF config.EvictionPolicy = "LRU" THEN Earlier(l1, k) ELSE 0]
          ELSE l1[k]]
    /\ l2' = [k \in CacheKeys |->
          IF l2[k].left > 1 THEN [l2[k] EXCEPT !.left = @ - 1] ELSE NoRow]
    /\ l3' = [k \in CacheKeys |->
          IF l3[k].left > 1 THEN [l3[k] EXCEPT !.left = @ - 1] ELSE NoRow]
    /\ lastSet' = IF lastSet.left > HistoryFloor
                  THEN [lastSet EXCEPT !.left = @ - 1] ELSE lastSet
    /\ <<l1', l2', l3', lastSet'>> # <<l1, l2, l3, lastSet>>
    /\ UNCHANGED <<config, evictChan, clients>>
    /\ UNCHANGED <<bvars, qvars, dvars, mvars, gvars, lvars>>

NextCache ==
    \/ \E c \in Getters, k \in CacheKeys : Get(c, k)
    \/ \E c \in Getters : GetL1(c)
    \/ \E c \in Getters : GetL2(c)
    \/ \E c \in Getters : GetPromoteL1(c)
    \/ \E c \in Getters : GetL3(c)
    \/ \E c \in Getters : GetPromoteL3(c)
    \/ \E c \in Getters : GetPromoteL2(c)
    \/ \E c \in CacheClients, k \in CacheKeys, v \in SetValues, ttl \in 1..MaxTTL :
          Set(c, k, v, ttl)
    \/ \E c \in CacheClients : SetL2(c)
    \/ \E c \in CacheClients : SetL3(c)
    \/ \E c \in CacheClients, k \in CacheKeys : Delete(c, k)
    \/ \E c \in CacheClients : DeleteL2(c)
    \/ \E c \in CacheClients : DeleteL3(c)
    \/ evictionWorker
    \/ cleanup
    \/ CacheTick

(***************************************************************************)
(* The locks of the cache: l1Mutex and metrics.mutex, both sync.RWMutex,   *)
(* as a Set and a Stats running side by side take them.  l1W: Set holds    *)
(* l1Mutex.Lock; mR: Stats holds metrics.mutex.RLock.  Where a lock is     *)
(* taken and released with nothing but a counter in between, that is one   *)
(* step.  A Lock waits for the readers, an RLock for the writer.           *)
(***************************************************************************)
IdleSet == [pc |-> "idle", key |-> "k1", val |-> "none", ttl |-> 0]

InitLocks ==
    lk = [l1W |-> FALSE, mR |-> FALSE, set |-> IdleSet, stats |-> "idle"]

\* Set: metrics.mutex.Lock(), TotalSets++, Unlock()
LockedSet(k, v, ttl) ==
    /\ lk.set.pc = "idle"
    /\ ~lk.mR
    /\ lk' = [lk EXCEPT !.set = [pc |-> "lockL1", key |-> k, val |-> v, ttl |-> ttl]]
    /\ UNCHANGED <<bvars, qvars, cvars, dvars, mvars, gvars>>

\* setToL1: l1Mutex.Lock(); a full map evicts, and the entry is stored once
\* evictFromL1 is back
SetLockL1 ==
    /\ lk.set.pc = "lockL1"
    /\ l1' \in setToL1(l1, lk.set.key, lk.set.val, lk.set.ttl)
    /\ lk' = [lk EXCEPT !.l1W = TRUE,
                        !.set.pc = IF Cardinality(L1Keys(l1)) >= config.L1MaxItems
                                      /\ keyToEvict(l1) # {}
                                   THEN "evict" ELSE "unlock"]
    /\ UNCHANGED <<l2, l3, evictChan, config, clients, lastSet>>
    /\ UNCHANGED <<bvars, qvars, dvars, mvars, gvars>>

\* evictFromL1, after delete(h.l1Cache, keyToEvict), with l1Mutex held:
\* metrics.mutex.Lock(), Evictions++, Unlock()
SetEvicted ==
    /\ lk.set.pc = "evict"
    /\ ~lk.mR
    /\ lk' = [lk EXCEPT !.set.pc = "unlock"]
    /\ UNCHANGED <<bvars, qvars, cvars, dvars, mvars, gvars>>

\* the deferred l1Mutex.Unlock(); then setToL2 and setToL3, and Set returns
SetUnlock ==
    /\ lk.set.pc = "unlock"
    /\ lk' = [lk EXCEPT !.l1W = FALSE, !.set = IdleSet]
    /\ \E ok2, ok3 \in BOOLEAN :
          /\ l2' = IF ok2 THEN setToL2(l2, lk.set.key, lk.set.val, lk.set.ttl) ELSE l2
          /\ l3' = IF ok2 /\ ok3 /\ config.l3Client
                   THEN setToL3(l3, lk.set.key, lk.set.val, lk.set.ttl) ELSE l3
    /\ UNCHANGED <<l1, evictChan, config, clients, lastSet>>
    /\ UNCHANGED <<bvars, qvars, dvars, mvars, gvars>>

\* Stats: metrics.mutex.RLock(), its RUnlock deferred
StatsBegin ==
    /\ lk.stats = "idle"
    /\ lk' = [lk EXCEPT !.mR = TRUE, !.stats = "rlockL1"]
    /\ UNCHANGED <<bvars, qvars, cvars, dvars, mvars, gvars>>

\* l1Mutex.RLock(), len(h.l1Cache), RUnlock()
StatsLen ==
    /\ lk.stats = "rlockL1"
    /\ ~lk.l1W
    /\ lk' = [lk EXCEPT !.stats = "query"]
    /\ UNCHANGED <<bvars, qvars, cvars, dvars, mvars, gvars>>

\* the count of the rows, the ratios, and the return
StatsReturn ==
    /\ lk.stats = "query"
    /\ lk' = [lk EXCEPT !.mR = FALSE, !.stats = "idle"]
    /\ UNCHANGED <<bvars, qvars, cvars, dvars, mvars, gvars>>

NextCacheLocks ==
    \/ \E k \in CacheKeys, v \in SetValues, ttl \in 1..MaxTTL : LockedSet(k, v, ttl)
    \/ SetLockL1
    \/ SetEvicted
    \/ SetUnlock
    \/ StatsBegin
    \/ StatsLen
    \/ StatsReturn
    \/ CacheTick

(***************************************************************************)
(* Offline detector (package cache, offline.go).                           *)
(***************************************************************************)
OnlineMode == "OnlineMode"
LimitedMode == "LimitedMode"
OfflineMode == "OfflineMode"
Modes == {OnlineMode, LimitedMode, OfflineMode}

\* NewOfflineDetector: offlineThreshold
offlineThreshold == 3

\* DefaultServices: the keys of the map, and each service's Name and Critical
ServiceKeys == {"github", "nvd", "sigstore"}
ServiceName == [github |-> "GitHub API", nvd |-> "NVD API", sigstore |-> "Sigstore Fulcio"]
DefaultServices == [github |-> TRUE, nvd |-> TRUE, sigstore |-> FALSE]

Readers == {"r1"}

\* What a probe can end with: a response below 500, a response of 500 or more,
\* a transport error.
ProbeOutcomes == {"ok", "http5xx", "error"}

\* getErrorCount: the ErrorCount of d.status[serviceName], 0 if there is none
getErrorCount(status, serviceName) ==
    IF serviceName \in DOMAIN status THEN status[serviceName].ErrorCount ELSE 0

\* checkService: the status made of one probe.  getErrorCount is called with
\* service.Name.
checkService(status, s, outcome) ==
    IF outcome = "ok"
    THEN [IsAvailable |-> TRUE, ErrorCount |-> 0]
    ELSE [IsAvailable |-> FALSE, ErrorCount |-> getErrorCount(status, ServiceName[s]) + 1]

\* an updateMode that counts every service
updateMode_AllServices(svc, status) ==
    LET down == {s \in ServiceKeys : status[s].ErrorCount >= offlineThreshold}
    IN  IF Cardinality(down) = 0 THEN OnlineMode
        ELSE IF Cardinality(down) < Cardinality(ServiceKeys) THEN LimitedMode
        ELSE OfflineMode

\* updateMode: the mode for the current status
updateMode(svc, status) ==
    LET totalCriticalServices == Cardinality({s \in ServiceKeys : svc[s]})
        criticalServicesDown ==
            Cardinality({s \in ServiceKeys :
                            svc[s] /\ status[s].ErrorCount >= offlineThreshold})
    IN  IF criticalServicesDown = 0 THEN OnlineMode
        ELSE IF criticalServicesDown < totalCriticalServices THEN LimitedMode
        ELSE OfflineMode

\* History: per service, the number of consecutive polls, ending with the last
\* one, in which its probe failed, counted up to offlineThreshold.
NewStatus == [IsAvailable |-> TRUE, ErrorCount |-> 0]
IdleReader == [pc |-> "idle", op |-> "GetMode"]

NewOfflineDetector ==
    [mode |-> OnlineMode,
     status |-> [s \in ServiceKeys |-> NewStatus],
     pc |-> "new", todo |-> {},
     streak |-> [s \in ServiceKeys |-> 0]]

InitDetector ==
    /\ services = DefaultServices
    /\ det = NewOfflineDetector
    /\ readers = [r \in Readers |-> IdleReader]

\* Start: monitorServices runs
DetectorStart ==
    /\ det.pc = "new"
    /\ det' = [det EXCEPT !.pc = "idle"]
    /\ UNCHANGED <<services, readers>>
    /\ UNCHANGED <<bvars, qvars, cvars, mvars, gvars, lvars>>

\* checkAllServices, at the start of monitorServices and on its ticker:
\* d.mutex.Lock(), once no reader holds the mutex
checkAllServices ==
    /\ det.pc = "idle"
    /\ \A r \in Readers : readers[r].pc # "reading"
    /\ det' = [det EXCEPT !.pc = "polling", !.todo = ServiceKeys]
    /\ UNCHANGED <<services, readers>>
    /\ UNCHANGED <<bvars, qvars, cvars, mvars, gvars, lvars>>

\* the loop of checkAllServices, in the order of the map's range: checkService,
\* d.status[name] = status (updateServiceStatus writes a table that is not read)
Probe(s, outcome) ==
    /\ det.pc = "polling"
    /\ s \in det.todo
    /\ det' = [det EXCEPT
          !.todo = @ \ {s},
          !.status[s] = checkService(det.status, s, outcome),
          !.streak[s] = IF outcome = "ok" THEN 0 ELSE Min(@ + 1, offlineThreshold)]
    /\ UNCHANGED <<services, readers>>
    /\ UNCHANGED <<bvars, qvars, cvars, mvars, gvars, lvars>>

\* the end of checkAllServices: updateMode, d.mutex.Unlock()
PollEnd ==
    /\ det.pc = "polling"
    /\ det.todo = {}
    /\ det' = [det EXCEPT !.pc = "idle", !.mode = updateMode(services, det.status)]
    /\ UNCHANGED <<services, readers>>
    /\ UNCHANGED <<bvars, qvars, cvars, mvars, gvars, lvars>>

\* GetMode (IsOnline and IsOffline call it) or GetServiceStatus is called
ReadCall(r, op) ==
    /\ readers[r].pc = "idle"
    /\ readers' = [readers EXCEPT ![r] = [pc |-> "waiting", op |-> op]]
    /\ UNCHANGED <<services, det>>
    /\ UNCHANGED <<bvars, qvars, cvars, mvars, gvars, lvars>>

\* d.mutex.RLock(): not while checkAllServices holds the mutex
ReadLock(r) ==
    /\ readers[r].pc = "waiting"
    /\ det.pc # "polling"
    /\ readers' = [readers EXCEPT ![r].pc = "reading"]
    /\ UNCHANGED <<services, det>>
    /\ UNCHANGED <<bvars, qvars, cvars, mvars, gvars, lvars>>

\* the read and the deferred d.mutex.RUnlock()
ReadReturn(r) ==
    /\ readers[r].pc = "reading"
    /\ readers' = [readers EXCEPT ![r] = [IdleReader EXCEPT !.op = readers[r].op]]
    /\ UNCHANGED <<services, det>>
    /\ UNCHANGED <<bvars, qvars, cvars, mvars, gvars, lvars>>

\* monitorServices and the readers
NextMonitor ==
    \/ checkAllServices
    \/ \E s \in ServiceKeys, outcome \in ProbeOutcomes : Probe(s, outcome)
    \/ PollEnd
    \/ \E r \in Readers, op \in {"GetMode", "GetServiceStatus"} : ReadCall(r, op)
    \/ \E r \in Readers : ReadLock(r)
    \/ \E r \in Readers : ReadReturn(r)

NextDetector == DetectorStart \/ NextMonitor

(***************************************************************************)
(* Offline mode manager (offline.go).  Its callers ask for one CVE, whose  *)
(* cache key is CVEKey.  A call of the cache is one step here: Get and Set *)
(* as made of the tier functions above, with every database query and      *)
(* every call of the L3 client able to fail.                                *)
(***************************************************************************)
Managers == {"m1", "m2"}
CVEKey == "k1"

\* The map fetchFromLiveAPI builds holds a time.Time: a value that encoding/json
\* does not give back as it was.  What fetchFromLocalDB returns is decoded JSON.
LiveData == "int1"
LocalData == "float1"

\* fetchFromLiveAPI caches for 1 * time.Hour: less than one unit of the ttls
HourTTL == 1

\* HierarchicalCache.Get: what it can return, and the tiers as it leaves them
CacheGet(k) ==
    LET g1 == getFromL1(l1, k)
        g2 == getFromL2(l2, k)
        g3 == getFromL3(l3, k)
        ch == evictChan \cup g1.evict
    IN  IF g1.found
        THEN {[found |-> TRUE, val |-> g1.val, l1 |-> touchL1(l1, k), l2 |-> l2, ch |-> ch]}
        ELSE {[found |-> TRUE, val |-> g2.val, l1 |-> m, l2 |-> l2, ch |-> ch] :
                 m \in IF g2.found THEN setToL1(l1, k, g2.val, L1TTL) ELSE {}}
             \cup
             {[found |-> TRUE, val |-> g3.val, l1 |-> m, l2 |-> t, ch |-> ch] :
                 m \in (IF config.l3Client /\ g3.found
                        THEN setToL1(l1, k, g3.val, L1TTL) ELSE {}),
                 t \in {l2, setToL2(l2, k, g3.val, L2TTL)}}
             \cup
             {[found |-> FALSE, val |-> "none", l1 |-> l1, l2 |-> l2, ch |-> ch]}

IdleManager == [pc |-> "idle", mode |-> "none", local |-> "none", ret |-> "none"]

InitManager ==
    /\ mgr = [m \in Managers |-> IdleManager]
    /\ localDB = FALSE

\* SeedLocalDatabase: rows with source 'local'
SeedLocalDatabase ==
    /\ localDB' = TRUE
    /\ localDB = FALSE
    /\ UNCHANGED <<mgr, cvars>>
    /\ UNCHANGED <<bvars, qvars, dvars, gvars, lvars>>

\* GetVulnerabilityData: o.cache.Get; a hit is returned
MgrGet(m) ==
    /\ mgr[m].pc = "idle"
    /\ \E g \in CacheGet(CVEKey) :
          /\ l1' = g.l1 /\ l2' = g.l2 /\ evictChan' = g.ch
          /\ mgr' = [mgr EXCEPT ![m] =
                IF g.found THEN [IdleManager EXCEPT !.ret = g.val]
                ELSE [IdleManager EXCEPT !.pc = "mode"]]
    /\ UNCHANGED <<l3, config, clients, lastSet, localDB>>
    /\ UNCHANGED <<bvars, qvars, dvars, gvars, lvars>>

\* o.detector.GetMode(), once checkAllServices does not hold the mutex, and
\* the switch on it
MgrGetMode(m) ==
    /\ mgr[m].pc = "mode"
    /\ det.pc # "polling"
    /\ mgr' = [mgr EXCEPT ![m].mode = det.mode,
                          ![m].pc = IF det.mode = OnlineMode THEN "live" ELSE "local"]
    /\ UNCHANGED <<localDB, cvars>>
    /\ UNCHANGED <<bvars, qvars, dvars, gvars, lvars>>

\* fetchFromLocalDB: the query, Scan and json.Unmarshal; any error is "not
\* found".  In LimitedMode an error leads to fetchFromLiveAPI, in OfflineMode
\* it is returned.
MgrLocal(m) ==
    /\ mgr[m].pc = "local"
    /\ \E ok \in BOOLEAN :
          mgr' = [mgr EXCEPT ![m] =
             IF localDB /\ ok THEN [@ EXCEPT !.pc = "idle", !.ret = LocalData, !.local = "found"]
             ELSE IF mgr[m].mode = LimitedMode
                  THEN [@ EXCEPT !.pc = "live", !.local = IF localDB THEN "failed" ELSE "absent"]
             ELSE [@ EXCEPT !.pc = "idle", !.ret = "error",
                            !.local = IF localDB THEN "failed" ELSE "absent"]]
    /\ UNCHANGED <<localDB, cvars>>
    /\ UNCHANGED <<bvars, qvars, dvars, gvars, lvars>>

\* fetchFromLiveAPI is entered: the upstream fetch
MgrFetch(m) ==
    /\ mgr[m].pc = "live"
    /\ mgr' = [mgr EXCEPT ![m].pc = "fetching"]
    /\ UNCHANGED <<localDB, cvars>>
    /\ UNCHANGED <<bvars, qvars, dvars, gvars, lvars>>

\* fetchFromLiveAPI: o.cache.Set with its error ignored, and the data returned
MgrFetched(m) ==
    /\ mgr[m].pc = "fetching"
    /\ l1' \in setToL1(l1, CVEKey, LiveData, HourTTL)
    /\ \E ok2, ok3 \in BOOLEAN :
          /\ l2' = IF ok2 THEN setToL2(l2, CVEKey, LiveData, HourTTL) ELSE l2
          /\ l3' = IF ok2 /\ ok3 /\ config.l3Client
                   THEN setToL3(l3, CVEKey, LiveData, HourTTL) ELSE l3
    /\ mgr' = [mgr EXCEPT ![m].pc = "idle", ![m].ret = LiveData]
    /\ UNCHANGED <<evictChan, config, clients, lastSet, localDB>>
    /\ UNCHANGED <<bvars, qvars, dvars, gvars, lvars>>

NextManager ==
    \/ SeedLocalDatabase
    \/ \E m \in Managers : MgrGet(m)
    \/ \E m \in Managers : MgrGetMode(m)
    \/ \E m \in Managers : MgrLocal(m)
    \/ \E m \in Managers : MgrFetch(m)
    \/ \E m \in Managers : MgrFetched(m)
    \/ evictionWorker
    \/ cleanup
    \/ CacheTick

RECURSIVE Pow2(_)
Pow2(n) == IF n = 0 THEN 1 ELSE 2 * Pow2(n - 1)

(***************************************************************************)
(* GitHub client (pkg/github/client.go), with one caller, who makes its    *)
(* next call once the goroutine of the last one is over.  Remaining and    *)
(* RateLimitThreshold are counted in hundreds of requests, as shouldBackoff *)
(* divides their difference by 100; time is counted in ticks, and Reset is *)
(* the number of ticks left until the reset time of the snapshot (0:       *)
(* reached).  A time.Duration is an int64; here it has DurationBits bits.  *)
(***************************************************************************)
RateLimitThreshold == 2
BackoffBase == 2
MaxBackoff == 6
\* DefaultConfig().CircuitBreakerConfig.RequestTimeout: more than BackoffBase,
\* less than MaxBackoff
ClientRequestTimeout == 3

DurationBits == 5
MaxDuration == Pow2(DurationBits - 1) - 1
MinDuration == 0 - Pow2(DurationBits - 1)

\* the product of two Durations, as the machine computes it
Wrap(x) == ((x - MinDuration) % Pow2(DurationBits)) + MinDuration

\* time.Duration(f) of a float64 f >= 0 without fraction: the number if an
\* int64 holds it, else a value that depends on the implementation
DurationOf(f) == IF f <= MaxDuration THEN {f} ELSE MinDuration..MaxDuration

\* the thresholds a Config may hold, beside that of DefaultConfig
MaxThreshold == 5
Configs ==
    [RateLimitThreshold : 0..MaxThreshold, BackoffBase : {BackoffBase},
     MaxBackoff : {MaxBackoff}]
DefaultConfig ==
    [RateLimitThreshold |-> RateLimitThreshold, BackoffBase |-> BackoffBase,
     MaxBackoff |-> MaxBackoff]

\* what the provider answers: remaining requests, the time to the reset, and
\* the seconds of Retry-After (0: no such header)
MaxRemaining == 3
MaxReset == 7
MaxRetryAfter == 4

NoRateLimit == [Remaining |-> -1, Reset |-> 0]
RateLimits == [Remaining : 0..MaxRemaining, Reset : 0..MaxReset]

StatusOK == 200
StatusForbidden == 403
StatusServerError == 500

\* shouldBackoff: whether to wait, and the lengths of the wait that the
\* build can compute
shouldBackoff(cfg, rl) ==
    IF rl = NoRateLimit THEN {[backoff |-> FALSE, d |-> 0]}
    ELSE IF rl.Remaining <= cfg.RateLimitThreshold
    THEN {[backoff |-> TRUE,
           d |-> LET backoffDuration == Wrap(f * cfg.BackoffBase)
                 IN  IF backoffDuration > cfg.MaxBackoff THEN cfg.MaxBackoff
                     ELSE backoffDuration] :
             f \in DurationOf(Pow2(cfg.RateLimitThreshold - rl.Remaining))}
    ELSE {[backoff |-> FALSE, d |-> 0]}

\* headers without X-RateLimit-Limit, -Remaining or -Reset change nothing
updateRateLimitFromHeaders(rl, headers) ==
    IF headers = NoRateLimit THEN rl ELSE headers

(***************************************************************************)
(* A call of the client.  op: the operation; pc: the goroutine in which    *)
(* Breaker.Call runs the wrapped function ("backoff", "send", "retryAfter", *)
(* and "done" once its value fnret is on errChan); call: Breaker.Call      *)
(* itself ("waiting" in its select, "deferred" with onResult done and      *)
(* afterCall not), ret what it returned, elapsed the age of callCtx.       *)
(* History: waited (the backoff was waited out), status, hdr and retry of  *)
(* the response.                                                           *)
(***************************************************************************)
IdleRequest ==
    [op |-> "none", pc |-> "idle", wait |-> 0, fnret |-> "none",
     call |-> "none", elapsed |-> 0, admitted |-> StateClosed, ret |-> "none",
     waited |-> FALSE, status |-> 0, hdr |-> NoRateLimit, retry |-> 0]

InitClient ==
    gh = [config |-> DefaultConfig, lastRateLimit |-> NoRateLimit, req |-> IdleRequest]

\* circuitBreaker.Call: beforeCall; on admission callCtx and the goroutine
Admit(op, first) ==
    /\ gh.req.call = "none"
    /\ gh.req.pc \in {"idle", "done"}
    /\ LET r == beforeCall(b)
       IN  /\ b' = r.b
           /\ gh' = [gh EXCEPT !.req =
                 IF r.err # NoErr THEN [IdleRequest EXCEPT !.op = op, !.ret = r.err]
                 ELSE [first EXCEPT !.op = op, !.call = "waiting", !.admitted = r.state]]
    /\ UNCHANGED <<calls, obs>>
    /\ UNCHANGED <<qvars, cvars, dvars, mvars, lvars>>

\* makeRequest: in the wrapped function, shouldBackoff
makeRequest ==
    \E sb \in shouldBackoff(gh.config, gh.lastRateLimit) :
       Admit("makeRequest",
             IF sb.backoff THEN [IdleRequest EXCEPT !.pc = "backoff", !.wait = sb.d]
             ELSE [IdleRequest EXCEPT !.pc = "send"])

\* GetRateLimit: the wrapped function builds its request and sends it
GetRateLimit ==
    Admit("GetRateLimit", [IdleRequest EXCEPT !.pc = "send"])

\* case <-time.After(backoffDuration)
BackoffOver ==
    /\ gh.req.pc = "backoff"
    /\ gh.req.wait <= 0
    /\ gh' = [gh EXCEPT !.req.pc = "send", !.req.wait = 0, !.req.waited = TRUE]
    /\ UNCHANGED <<bvars, qvars, cvars, dvars, mvars, lvars>>

\* case <-ctx.Done(), in the backoff and in the wait of Retry-After
RequestCancelled ==
    /\ gh.req.pc \in {"backoff", "retryAfter"}
    /\ gh' = [gh EXCEPT !.req.pc = "done", !.req.wait = 0, !.req.fnret = ErrCanceled]
    /\ UNCHANGED <<bvars, qvars, cvars, dvars, mvars, lvars>>

\* c.httpClient.Do(req): the request goes upstream.  Without a response the
\* error is returned.  makeRequest takes the headers of a response and then
\* looks at its status; GetRateLimit takes the quota from the body of a 200
\* (headers stands for it then; a body that does not decode is an error).
SendRequest ==
    /\ gh.req.pc = "send"
    /\ \/ gh' = [gh EXCEPT !.req.pc = "done", !.req.fnret = ErrFn]
       \/ \E status \in {StatusOK, StatusForbidden, StatusServerError},
             headers \in RateLimits \cup {NoRateLimit},
             retryAfter \in 0..MaxRetryAfter :
             /\ retryAfter > 0 => status = StatusForbidden
             /\ gh' = [gh EXCEPT
                   !.lastRateLimit =
                      IF gh.req.op = "makeRequest"
                      THEN updateRateLimitFromHeaders(@, headers)
                      ELSE IF status = StatusOK /\ headers # NoRateLimit THEN headers
                      ELSE @,
                   !.req = [@ EXCEPT
                      !.status = status, !.hdr = headers, !.retry = retryAfter,
                      !.pc = IF gh.req.op = "makeRequest" /\ retryAfter > 0
                             THEN "retryAfter" ELSE "done",
                      !.wait = IF gh.req.op = "makeRequest" THEN retryAfter ELSE 0,
                      !.fnret = IF gh.req.op = "makeRequest" /\ retryAfter > 0 THEN "none"
                                ELSE IF status # StatusOK THEN ErrFn
                                ELSE IF gh.req.op = "GetRateLimit" /\ headers = NoRateLimit
                                     THEN ErrFn
                                ELSE NoErr]]
    /\ UNCHANGED <<bvars, qvars, cvars, dvars, mvars, lvars>>

\* the wait of Retry-After is over: "rate limit exceeded"
RetryAfterOver ==
    /\ gh.req.pc = "retryAfter"
    /\ gh.req.wait = 0
    /\ gh' = [gh EXCEPT !.req.pc = "done", !.req.fnret = ErrFn]
    /\ UNCHANGED <<bvars, qvars, cvars, dvars, mvars, lvars>>

\* Breaker.Call, case err := <-errChan: onResult(err), return err.  After a
\* cancelled ctx callCtx is done as well, and the select may take either.
CallSelectResult ==
    /\ gh.req.call = "waiting"
    /\ gh.req.pc = "done"
    /\ gh.req.fnret # NoErr => b.failureCount < MaxFailureCount
    /\ b' = onResult(b, gh.req.fnret)
    /\ \E e \in {gh.req.fnret} \cup
                (IF gh.req.fnret = ErrCanceled THEN {ErrRequestTimeout} ELSE {}) :
          gh' = [gh EXCEPT !.req.call = "deferred", !.req.ret = e]
    /\ UNCHANGED <<calls, obs>>
    /\ UNCHANGED <<qvars, cvars, dvars, mvars, lvars>>

\* case <-callCtx.Done(), RequestTimeout after the call began; the goroutine
\* runs on
CallSelectDeadline ==
    /\ gh.req.call = "waiting"
    /\ gh.req.elapsed >= ClientRequestTimeout
    /\ b.failureCount < MaxFailureCount
    /\ b' = onResult(b, ErrRequestTimeout)
    /\ gh' = [gh EXCEPT !.req.call = "deferred", !.req.ret = ErrRequestTimeout]
    /\ UNCHANGED <<calls, obs>>
    /\ UNCHANGED <<qvars, cvars, dvars, mvars, lvars>>

\* the deferred afterCall; Call returns to makeRequest or GetRateLimit, which
\* returns
CallReturn ==
    /\ gh.req.call = "deferred"
    /\ b' = afterCall(b, gh.req.admitted = StateHalfOpen)
    /\ gh' = [gh EXCEPT !.req.call = "none"]
    /\ UNCHANGED <<calls, obs>>
    /\ UNCHANGED <<qvars, cvars, dvars, mvars, lvars>>

\* a tick of the clock: timers run down, callCtx grows older, the reset time
\* comes nearer, the last failure of the breaker lies further back
ClientTick ==
    /\ gh.req.pc # "send"
    /\ gh.req.pc \in {"backoff", "retryAfter"} => gh.req.wait > 0
    /\ gh.req.call # "deferred"
    /\ gh.req.call = "waiting" => gh.req.pc # "done"
    /\ gh' = [gh EXCEPT !.lastRateLimit.Reset = IF @ > 0 THEN @ - 1 ELSE 0,
                        !.req.wait = IF @ > 0 THEN @ - 1 ELSE @,
                        !.req.elapsed = IF gh.req.call = "waiting"
                                        THEN Min(@ + 1, ClientRequestTimeout) ELSE @]
    /\ b' = [b EXCEPT !.sinceLastFailure = Min(@ + 1, RecoveryTimeout)]
    /\ <<gh', b'>> # <<gh, b>>
    /\ UNCHANGED <<calls, obs>>
    /\ UNCHANGED <<qvars, cvars, dvars, mvars, lvars>>

NextClient ==
    \/ makeRequest
    \/ GetRateLimit
    \/ BackoffOver
    \/ RequestCancelled
    \/ SendRequest
    \/ RetryAfterOver
    \/ CallSelectResult
    \/ CallSelectDeadline
    \/ CallReturn
    \/ ClientTick

(***************************************************************************)
(* Specifications.                                                         *)
(***************************************************************************)
Init ==
    /\ InitBreaker /\ InitQueue /\ InitCache /\ InitDetector /\ InitManager
    /\ InitClient /\ InitLocks
    /\ tracing = FALSE /\ config = DefaultCacheConfig /\ lastSet = NoSet

\* the same program, with the history of the order of the requests recorded
InitTracing ==
    /\ InitBreaker /\ InitQueue /\ InitCache /\ InitDetector /\ InitManager
    /\ InitClient /\ InitLocks
    /\ tracing = TRUE /\ config = DefaultCacheConfig /\ lastSet = NoSet

\* the same program under each eviction policy and each L1MaxItems, with no
\* history of the Sets
InitPolicies ==
    /\ InitBreaker /\ InitQueue /\ InitCache /\ InitDetector /\ InitManager
    /\ InitClient /\ InitLocks
    /\ tracing = FALSE /\ lastSet = NoHistory
    /\ config \in CacheConfigs

SpecBreaker == Init /\ [][NextBreaker]_vars

\* the same program, with the time since the breaker opened recorded
InitOpenClock ==
    /\ b = New
    /\ calls = [c \in Callers |-> IdleCall]
    /\ obs = [NoObs EXCEPT !.clock = TRUE, !.sinceOpen = RecoveryTimeout]
    /\ InitQueue /\ InitCache /\ InitDetector /\ InitManager /\ InitClient /\ InitLocks
    /\ tracing = FALSE /\ config = DefaultCacheConfig /\ lastSet = NoSet

SpecBreakerClock == InitOpenClock /\ [][NextBreaker]_vars

NextQueue ==
    \/ \E n \in 1..NumWorkers : Start(n)
    \/ \E r \in Reqs, p \in Priority : EnqueueSend(r, p)
    \/ \E r \in Reqs, p \in Priority : EnqueueClosed(r, p)
    \/ \E r \in Reqs : EnqueueCancelled(r)
    \/ \E r \in Reqs : EnqueueShutdown(r)
    \/ \E r \in Reqs : ReadResult(r)
    \/ \E w \in Workers : WorkerShutdown(w)
    \/ \E w \in Workers : WorkerTick(w)
    \/ \E w \in Workers : WorkerDefault(w)
    \/ \E w \in Workers : WorkerScan(w)
    \/ \E r \in Reqs : ReqStart(r)
    \/ \E r \in Reqs : ReqAttempt(r)
    \/ \E r \in Reqs : RetryDelay(r)
    \/ \E r \in Reqs : RetryCtxDone(r)
    \/ StopBegin
    \/ StopClose
    \/ StopReturn

SpecQueue == Init /\ [][NextQueue]_vars

SpecQueueOrder == InitTracing /\ [][NextQueue]_vars

\* A queue that is never stopped, under fair scheduling: every worker keeps
\* running its loop and its ticker keeps firing, every goroutine started by
\* processBatch runs, the work of a request returns and a retry delay ends.
\* Nothing is assumed of the callers of Start, Enqueue and of the readers of results.
NextQueueLive ==
    \/ Start(LiveWorkers)
    \/ \E r \in Reqs, p \in Priority : EnqueueSend(r, p)
    \/ \E r \in Reqs : EnqueueCancelled(r)
    \/ \E r \in Reqs : ReadResult(r)
    \/ \E w \in Workers : WorkerTick(w)
    \/ \E w \in Workers : WorkerDefault(w)
    \/ \E w \in Workers : WorkerScan(w)
    \/ \E r \in Reqs : ReqStart(r)
    \/ \E r \in Reqs : ReqAttempt(r)
    \/ \E r \in Reqs : RetryDelay(r)
    \/ \E r \in Reqs : RetryCtxDone(r)

FairQueue ==
    /\ \A w \in Workers : SF_vars(WorkerTick(w))
    /\ \A w \in Workers : WF_vars(WorkerDefault(w))
    /\ \A w \in Workers : WF_vars(WorkerScan(w))
    /\ \A r \in Reqs : WF_vars(ReqStart(r))
    /\ \A r \in Reqs : WF_vars(ReqAttempt(r))
    /\ \A r \in Reqs : WF_vars(RetryDelay(r) \/ RetryCtxDone(r))

SpecQueueLive == Init /\ [][NextQueueLive]_vars /\ FairQueue

SpecCache == Init /\ [][NextCache]_vars

\* the cache with a second goroutine that calls Get, both using one key
InitTwoGetters ==
    /\ InitBreaker /\ InitQueue /\ InitDetector /\ InitManager /\ InitClient /\ InitLocks
    /\ l1 = [k \in CacheKeys |-> NoEntry]
    /\ l2 = [k \in CacheKeys |-> NoRow]
    /\ l3 = [k \in CacheKeys |-> NoRow]
    /\ evictChan = {}
    /\ clients = [c \in Getters |-> IdleClient]
    /\ tracing = FALSE /\ lastSet = NoSet
    /\ config = [DefaultCacheConfig EXCEPT !.keys = {Watched}]

SpecCacheGetters == InitTwoGetters /\ [][NextCache]_vars

SpecCacheLocks == Init /\ [][NextCacheLocks]_vars

SpecCachePolicies == InitPolicies /\ [][NextCache]_vars

SpecDetector == Init /\ [][NextDetector]_vars

\* updateMode on every status: the detector at the end of the loop of
\* checkAllServices, with any error counts and any services Critical
InitAnyStatus ==
    /\ InitBreaker /\ InitQueue /\ InitCache /\ InitManager /\ InitClient /\ InitLocks
    /\ tracing = FALSE /\ config = DefaultCacheConfig /\ lastSet = NoSet
    /\ services \in [ServiceKeys -> BOOLEAN]
    /\ \E counts \in [ServiceKeys -> 0..offlineThreshold] :
          det = [mode |-> OnlineMode,
                 status |-> [s \in ServiceKeys |->
                               [IsAvailable |-> counts[s] = 0, ErrorCount |-> counts[s]]],
                 pc |-> "polling", todo |-> {},
                 streak |-> [s \in ServiceKeys |-> 0]]
    /\ readers = [r \in Readers |-> IdleReader]

SpecUpdateMode == InitAnyStatus /\ [][NextMonitor]_vars

\* GetVulnerabilityData in every mode: what GetMode returns is an input
InitAnyMode ==
    /\ InitBreaker /\ InitQueue /\ InitCache /\ InitManager /\ InitClient /\ InitLocks
    /\ tracing = FALSE /\ config = DefaultCacheConfig /\ lastSet = NoHistory
    /\ services = DefaultServices
    /\ det \in {[NewOfflineDetector EXCEPT !.mode = md, !.pc = "idle"] : md \in Modes}
    /\ readers = [r \in Readers |-> IdleReader]

SpecManager == InitAnyMode /\ [][NextManager]_vars

SpecClient == Init /\ [][NextClient]_vars

\* shouldBackoff for any threshold and any snapshot, as makeRequest applies it
InitAnyQuota ==
    /\ InitBreaker /\ InitQueue /\ InitCache /\ InitDetector /\ InitManager /\ InitLocks
    /\ tracing = FALSE /\ config = DefaultCacheConfig /\ lastSet = NoSet
    /\ gh \in [config : Configs, lastRateLimit : RateLimits \cup {NoRateLimit},
               req : {IdleRequest}]

NextBackoff ==
    \/ makeRequest
    \/ BackoffOver
    \/ ClientTick

SpecBackoff == InitAnyQuota /\ [][NextBackoff]_vars

(***************************************************************************)
(* Properties of the breaker, checked under SpecBreaker.                   *)
(***************************************************************************)
\* caller c's Call runs beforeCall in this step
Begins(c) == calls[c].pc = "idle" /\ calls'[c].pc # "idle"
\* caller c's Call leaves its select in this step, recording err with the breaker
Records(c) == calls[c].pc = "running" /\ calls'[c].pc = "deferred"
InRecovery == b.state = StateOpen /\ b.sinceLastFailure < RecoveryTimeout

\* C1: while the breaker is Open and less than RecoveryTimeout has elapsed since
\* lastFailureTime, a Call returns ErrCircuitOpen, leaves the breaker as it is and
\* never starts the wrapped function.
C1_OpenRejects ==
    /\ [](\A c \in Callers : calls[c].pc = "rejected" => calls[c].fn = "none")
    /\ [][\A c \in Callers :
            (Begins(c) /\ InRecovery)
               => /\ calls'[c].pc = "rejected"
                  /\ calls'[c].ret = ErrCircuitOpen
                  /\ calls'[c].fn = "none"
                  /\ b' = b]_bvars

C1_Witness ==
    /\ InRecovery
    /\ \E c \in Callers : calls[c].pc = "rejected" /\ calls[c].ret = ErrCircuitOpen

\* C2: counted from Closed with failureCount = 0, the breaker is still Closed after
\* fewer than FailureThreshold failures in a row, and the failure that makes them
\* FailureThreshold leaves it Open.
C2_OpensAtThreshold ==
    /\ [](obs.failStreak < FailureThreshold => b.state = StateClosed)
    /\ [][(obs.failStreak = FailureThreshold - 1 /\ obs'.failStreak = FailureThreshold)
             => b'.state = StateOpen]_bvars

C2_Witness ==
    /\ b.state = StateOpen
    /\ obs.failStreak = FailureThreshold
    /\ b.failureCount = FailureThreshold

\* C3: a Call that finds the breaker Open with at least RecoveryTimeout elapsed since
\* lastFailureTime moves it to HalfOpen and starts the wrapped function; when the
\* function's nil result reaches the Call, the Call returns nil.
C3_ProbeAfterRecovery ==
    [][\A c \in Callers :
          /\ (Begins(c) /\ b.state = StateOpen /\ b.sinceLastFailure >= RecoveryTimeout)
                => /\ b'.state = StateHalfOpen
                   /\ calls'[c].pc = "running"
                   /\ calls'[c].fn = "running"
                   /\ calls'[c].admitted = StateHalfOpen
          /\ (SelectResult(c) /\ calls[c].admitted = StateHalfOpen
                              /\ calls[c].fn = NoErr)
                => calls'[c].ret = NoErr]_bvars

\* the probe that moved the breaker to HalfOpen has succeeded
C3_Witness ==
    /\ b.state = StateHalfOpen
    /\ b.successCount = 1
    /\ b.activeCalls = 0
    /\ \E c \in Callers :
          /\ calls[c].pc = "deferred"
          /\ calls[c].admitted = StateHalfOpen
          /\ calls[c].ret = NoErr
          /\ \A d \in Callers \ {c} : calls[d].pc = "idle"

\* C4: in HalfOpen, the success that makes SuccessThreshold successes with no failure
\* in between leaves the breaker Closed with failureCount = successCount = 0; an
\* earlier success leaves it HalfOpen.
C4_ClosesAtThreshold ==
    /\ [](b.state = StateHalfOpen => obs.succStreak < SuccessThreshold)
    /\ [][(b.state = StateHalfOpen /\ obs'.succStreak = obs.succStreak + 1)
             => IF obs'.succStreak >= SuccessThreshold
                THEN /\ b'.state = StateClosed
                     /\ b'.failureCount = 0
                     /\ b'.successCount = 0
                ELSE b'.state = StateHalfOpen]_bvars

C4_Witness ==
    /\ b.state = StateClosed
    /\ obs.succStreak = SuccessThreshold
    /\ \E c \in Callers :
          calls[c].pc = "deferred" /\ calls[c].admitted = StateHalfOpen
                                   /\ calls[c].ret = NoErr

\* C5: a failure recorded while the breaker is HalfOpen leaves it Open with
\* successCount = 0, whatever successCount was.
C5_HalfOpenFailureOpens ==
    [][\A c \in Callers :
          (Records(c) /\ calls'[c].ret # NoErr /\ b.state = StateHalfOpen)
             => b'.state = StateOpen /\ b'.successCount = 0]_bvars

\* a probe has failed after FailureThreshold failures had opened the breaker
C5_Witness ==
    /\ b.state = StateOpen
    /\ b.successCount = 0
    /\ b.sinceLastFailure = 0
    /\ b.failureCount = FailureThreshold + 1
    /\ \E c \in Callers :
          /\ calls[c].pc = "deferred"
          /\ calls[c].admitted = StateHalfOpen
          /\ calls[c].ret # NoErr
          /\ \A d \in Callers \ {c} : calls[d].pc = "idle"

\* the calls admitted as HalfOpen (the one that moved the breaker from Open to
\* HalfOpen among them) whose wrapped function is in flight
HalfOpenInFlight ==
    {c \in Callers : /\ calls[c].pc = "running"
                     /\ calls[c].admitted = StateHalfOpen
                     /\ calls[c].fn = "running"}

\* C6: at no time are more than MaxConcurrentCalls wrapped functions in flight that
\* were admitted while the breaker was HalfOpen.
C6_HalfOpenLimit == Cardinality(HalfOpenInFlight) <= MaxConcurrentCalls

C8_CancelReturnsCtxErr ==
    \A c \in Callers :
       (calls[c].pc = "deferred" /\ calls[c].fn = "running"
                                 /\ calls[c].elapsed < RequestTimeout)
          => calls[c].ret = ErrCanceled

(***************************************************************************)
(* Properties of the queue, checked under SpecQueue and SpecQueueLive.     *)
(***************************************************************************)
\* the number of places (positions of the buffers and of the workers' batches)
\* that hold request r
RECURSIVE Count(_, _)
Count(seq, r) ==
    IF seq = <<>> THEN 0
    ELSE (IF Head(seq) = r THEN 1 ELSE 0) + Count(Tail(seq), r)

RECURSIVE SumCount(_, _, _)
SumCount(f, dom, r) ==
    IF dom = {} THEN 0
    ELSE LET x == CHOOSE y \in dom : TRUE
         IN  Count(f[x], r) + SumCount(f, dom \ {x}, r)

Holders(r) ==
    SumCount(queues, Priority, r)
    + SumCount([w \in Workers |-> workers[w].batch], Workers, r)

\* C9: each enqueued request is received from its buffer at most once, is held by
\* at most one buffer position or worker batch, and at most one value is ever sent
\* on its result channel, for every interleaving of Enqueue, workers, retries, Stop.
C9_AtMostOnce ==
    \A r \in Reqs :
       /\ reqs[r].taken <= 1
       /\ Holders(r) <= 1
       /\ Len(reqs[r].result) <= 1
       /\ reqs[r].st \in {"queued", "batched"} <=> Holders(r) = 1

\* a request was taken once, retried, and has its one result while Stop runs
C9_Witness ==
    /\ shutdown
    /\ \E r \in Reqs :
          /\ reqs[r].st = "done"
          /\ reqs[r].taken = 1
          /\ reqs[r].attempt = MaxRetries
          /\ Len(reqs[r].result) = 1

\* request r has been accepted by a started queue and has no result yet
Pending(r) ==
    started /\ reqs[r].st \in {"queued", "batched", "spawned", "running", "waiting"}
Delivered(r) == reqs[r].st = "done" /\ Len(reqs[r].result) = 1

\* the buffers of the classes above p are empty
HigherEmpty(p) ==
    \A i, j \in 1..Len(priorities) :
       (i < j /\ priorities[j] = p) => queues[priorities[i]] = <<>>

\* request r waits in its buffer while a buffer of a higher class is not empty
Outranked(r) == reqs[r].st = "queued" /\ ~HigherEmpty(reqs[r].prio)

C11_EnqueueThreeOutcomes ==
    /\ ~panicked
    /\ \A r \in Reqs :
          reqs[r].st = "refused" =>
             reqs[r].result \in {<<ErrCanceled>>, <<ErrQueueShutdown>>}
    /\ stop = "returned" =>
          \A r \in Reqs : reqs[r].st = "queued" => Len(reqs[r].result) = 1

\* C12: Stop returns only after every worker has exited, and the workers have by
\* then drained the priority buffers and flushed their batches: when Stop has
\* returned no request is left in a buffer or in a batch.
C12_StopDrains ==
    stop = "returned" =>
       /\ \A w \in Workers : workers[w].pc \in {"exited", "idle"}
       /\ \A p \in Priority : queues[p] = <<>>
       /\ \A r \in Reqs : reqs[r].st \notin {"queued", "batched"}

\* C13: a dispatched request that has its result either succeeded, or failed with a
\* non-retryable error that is its result, or was attempted MaxRetries + 1 times
\* and has the last (retryable) error of its work as its result.
C13_RetryContract ==
    \A r \in Reqs :
       (reqs[r].st = "done" /\ reqs[r].taken = 1) =>
          \E err \in FnOutcomes :
             /\ reqs[r].result = <<err>>
             /\ isRetryableError(err) => reqs[r].attempt = MaxRetries

\* C14: a worker takes a request from the buffer of priority p only if the buffers
\* of all higher priorities are empty at that moment.
C14_TakesHighestWaiting ==
    [][\A p \in Priority :
          Len(queues'[p]) < Len(queues[p]) => HigherEmpty(p)]_vars

\* the work of request r has begun (req.Fn has been called)
Started(r) == reqs[r].st \in {"running", "waiting", "done"}

\* C15: if a Low and a Critical request are both waiting in their buffers when
\* dispatching starts, the work of the Critical request begins before the work of
\* the Low request: the Low request's work has not begun while that Critical
\* request's has not.
C15_CriticalBeforeLow ==
    \A r \in Reqs : reqs[r].behind # 0 => ~Started(r)

\* C16: two requests enqueued one after the other in the same buffer have their
\* work started in the order of their Enqueue: the work of the second has not
\* begun while the work of the first has not.
C16_FifoWithinBuffer ==
    \A r \in Reqs : reqs[r].after # 0 => ~Started(r)

(***************************************************************************)
(* Properties of the hierarchical cache.                                   *)
(***************************************************************************)
\* this step is the return of a Get of key k by client c
GetReturns(c, k) ==
    /\ clients[c].pc \in {"getL1", "getL3", "promoteL1", "promoteL2"}
    /\ clients[c].key = k
    /\ clients'[c].pc = "idle"

\* C17: after Set(K, V, ttl) has returned nil, with no later Set or Delete of K,
\* every Get(K) made before ttl elapses returns (V, true), also when K has been
\* evicted from the Memory tier by Sets of other keys.
C17_SetThenGet ==
    [][\A c \in CacheClients :
          (GetReturns(c, Watched) /\ lastSet.val \in Values /\ lastSet.left > 0)
             => clients'[c].ret = lastSet.val]_vars

C19_PromotionOnHit ==
    [][\A c \in CacheClients :
          LET k == clients[c].key
          IN  /\ (clients[c].pc = "getL2" /\ l2[k].left > 0) =>
                    clients'[c].pc = "promoteL1"
              /\ (clients[c].pc = "getL3" /\ l3[k].left > 0) =>
                    clients'[c].pc = "promoteL3"
              /\ (clients[c].pc = "promoteL1" /\ clients'[c].pc = "idle") =>
                    /\ clients'[c].ret = Unmarshal(l2[k].data)
                    /\ l1'[k].in /\ l1'[k].left > 0
              /\ (clients[c].pc = "promoteL2" /\ clients'[c].pc = "idle") =>
                    /\ clients'[c].ret = Unmarshal(l3[k].data)
                    /\ l1'[k].in /\ l1'[k].left > 0
                    /\ l2'[k].left > 0]_vars

C21_MemoryBounded ==
    [][/\ Cardinality(L1Keys(l1')) <= config.L1MaxItems
       /\ \A k \in CacheKeys :
            (~l1[k].in /\ l1'[k].in /\ Cardinality(L1Keys(l1)) = config.L1MaxItems)
               => Cardinality(L1Keys(l1')) = config.L1MaxItems]_vars

(***************************************************************************)
(* C22: when the setToL1 of a Set removes an entry, no entry of l1Cache had *)
(* an older AccessTime under LRU, a lower HitCount under LFU, a sooner      *)
(* ExpiresAt under TTL; and that Set removes no other entry.                *)
(***************************************************************************)
SetEvicts(c) == clients[c].pc = "idle" /\ clients'[c].pc = "setL2"

C22_EvictsByPolicy ==
    [][\A c \in CacheClients :
          SetEvicts(c) =>
             /\ Cardinality(Removed(l1, l1')) <= 1
             /\ \A k \in Removed(l1, l1'), j \in L1Keys(l1) : ~Before(l1, j, k)]_vars

\* a Set has removed an entry that the policy ranks before another one
C22_Witness ==
    \E c \in CacheClients : clients[c].pc = "setL2" /\ clients[c].out = "chosen"

(***************************************************************************)
(* C23: Set returns an error exactly when its write to cache_entries        *)
(* fails; when its write to the L3 client fails, Set returns nil and the   *)
(* value is in l1Cache and in cache_entries as Set returns.                *)
(***************************************************************************)
SetReturns(c) == clients[c].pc \in {"setL2", "setL3"} /\ clients'[c].pc = "idle"
Written(c) ==
    [data |-> Marshal(clients[c].val), left |-> clients[c].ttl]

C23_SetErrors ==
    [][\A c \in CacheClients :
          /\ (clients[c].pc = "setL2" /\ clients'[c] # clients[c]) =>
                IF clients'[c].pc = "setL3"
                THEN l2'[clients[c].key] = Written(c)
                ELSE clients'[c].pc = "idle" /\ clients'[c].ret = "error" /\ l2' = l2
          /\ SetReturns(c) => (clients'[c].ret = "error" <=> clients[c].pc = "setL2")
          /\ (SetReturns(c) /\ clients[c].pc = "setL3" /\ l3'[clients[c].key] # Written(c)) =>
                /\ clients'[c].ret = "nil"
                /\ l1'[clients[c].key].in /\ l1'[clients[c].key].val = clients[c].val
                /\ l2'[clients[c].key] = Written(c)]_vars

(***************************************************************************)
(* C24: whenever no polling cycle is in progress, the mode is OnlineMode   *)
(* if no Critical service has an ErrorCount of offlineThreshold or more,   *)
(* OfflineMode if every Critical service has, LimitedMode otherwise; the   *)
(* status of the other services plays no part.                             *)
(***************************************************************************)
CriticalDown == {s \in ServiceKeys : services[s] /\ det.status[s].ErrorCount >= offlineThreshold}
CriticalUp == {s \in ServiceKeys : services[s] /\ det.status[s].ErrorCount < offlineThreshold}

C24_ModeOfCritical ==
    det.pc = "idle" =>
       /\ CriticalDown = {} => det.mode = OnlineMode
       /\ (CriticalDown # {} /\ CriticalUp = {}) => det.mode = OfflineMode
       /\ (CriticalDown # {} /\ CriticalUp # {}) => det.mode = LimitedMode

\* after a cycle: one Critical service down, one not, and a service that is not
\* Critical down as well
C24_Witness ==
    /\ det.pc = "idle" /\ det.mode = LimitedMode
    /\ CriticalDown # {} /\ CriticalUp # {}
    /\ \E s \in ServiceKeys : ~services[s] /\ det.status[s].ErrorCount >= offlineThreshold

(***************************************************************************)
(* C25: after a poll, the ErrorCount stored for each service is the number *)
(* of consecutive polls, ending with that one, in which its probe failed   *)
(* (0 after a poll in which it succeeded).                                 *)
(***************************************************************************)
C25_CountsConsecutiveFailures ==
    det.pc = "idle" =>
       \A s \in ServiceKeys :
          IF det.streak[s] < offlineThreshold
          THEN det.status[s].ErrorCount = det.streak[s]
          ELSE det.status[s].ErrorCount >= offlineThreshold

(***************************************************************************)
(* C26: with the default services, after offlineThreshold or more polling  *)
(* cycles in a row in which every Critical service failed its probe the    *)
(* mode is OfflineMode, and if only some of them did it is LimitedMode.    *)
(***************************************************************************)
Failing == {s \in ServiceKeys : services[s] /\ det.streak[s] >= offlineThreshold}

C26_FailuresLeaveOnline ==
    det.pc = "idle" =>
       /\ (Failing # {} /\ Failing = {s \in ServiceKeys : services[s]}) => det.mode = OfflineMode
       /\ (Failing # {} /\ Failing # {s \in ServiceKeys : services[s]}) => det.mode = LimitedMode

(***************************************************************************)
(* C27: a caller of GetMode, IsOnline, IsOffline or GetServiceStatus is     *)
(* never kept waiting by a polling cycle whose probes are not finished.    *)
(***************************************************************************)
C27_ReadersNeverWait ==
    \A r \in Readers :
       readers[r].pc = "waiting" => ~(det.pc = "polling" /\ det.todo # {})


C29_OneFetchPerKey ==
    Cardinality({m \in Managers : mgr[m].pc = "fetching"}) <= 1

\* C30: while the snapshot reports no remaining requests and its reset time
\* has not been reached, makeRequest sends no request upstream.
C30_NoRequestOverBudget ==
    [][(gh.req.op = "makeRequest" /\ gh.req.pc = "send" /\ gh'.req.pc # "send") =>
          ~(gh.lastRateLimit # NoRateLimit /\ gh.lastRateLimit.Remaining = 0
            /\ gh.lastRateLimit.Reset > 0)]_vars

\* C35: a call that begins while the breaker is Open, RecoveryTimeout or more
\* after the breaker went to Open, is not rejected with ErrCircuitOpen.
C35_RecoveryFromTransition ==
    [][\A c \in Callers :
          (/\ calls[c].pc = "idle" /\ calls'[c].pc # "idle"
           /\ b.state = StateOpen
           /\ obs.sinceOpen >= RecoveryTimeout)
          => calls'[c].ret # ErrCircuitOpen]_vars

\* C36: activeCalls is never negative.
C36_ActiveCallsNotNegative ==
    b.activeCalls >= 0

\* C37: once a Delete(K) whose deletes were carried out has returned and no
\* call is in progress, no tier holds a value for K that a Get would return,
\* whatever Gets ran beside the Delete.
C37_DeletedStaysDeleted ==
    (lastSet.val = "deleted" /\ \A c \in Getters : clients[c].pc = "idle")
       => /\ ~getFromL1(l1, Watched).found
          /\ ~getFromL2(l2, Watched).found
          /\ ~getFromL3(l3, Watched).found

\* C39: a Set that returns an error has left the Memory tier as it found it:
\* a key that had no entry in l1Cache when Set was called has none when Set
\* returns the error.
C39_FailedSetChangesNothing ==
    [][\A c \in CacheClients :
          (/\ clients[c].pc = "setL2"
           /\ clients'[c].pc = "idle" /\ clients'[c].ret = "error"
           /\ ~clients[c].had)
          => ~l1'[clients[c].key].in]_vars

\* C38: a Set and a Stats running side by side never each hold the lock the
\* other waits for: Set with l1Mutex waiting for metrics.mutex, Stats with
\* metrics.mutex waiting for l1Mutex.
C38_NoDeadlock ==
    ~(/\ lk.set.pc = "evict" /\ lk.l1W
      /\ lk.stats = "rlockL1" /\ lk.mR)

\* C31: with no snapshot, or with remaining above the threshold, makeRequest
\* is asked for no delay; otherwise the delay is at least 0, at most MaxBackoff,
\* and not shorter than the delay for a deficit that is smaller by one.
C31_BackoffDelay ==
    [][(gh.req.call = "none" /\ gh'.req.call = "waiting" /\ gh'.req.op = "makeRequest") =>
          IF gh.lastRateLimit = NoRateLimit
             \/ gh.lastRateLimit.Remaining > gh.config.RateLimitThreshold
          THEN gh'.req.pc = "send"
          ELSE /\ gh'.req.pc = "backoff"
               /\ gh'.req.wait >= 0
               /\ gh'.req.wait <= gh.config.MaxBackoff
               /\ \A r \in shouldBackoff(gh.config,
                              [gh.lastRateLimit EXCEPT !.Remaining = @ + 1]) :
                     r.backoff => r.d <= gh'.req.wait]_vars

\* this step sends the request of the call upstream
RequestSent == gh.req.pc = "send" /\ gh'.req.pc # "send"

\* this step is the select of Breaker.Call taking a case
CallSelects == gh.req.call = "waiting" /\ gh'.req.call = "deferred"

\* C32: with a snapshot whose remaining is at or below RateLimitThreshold, a
\* call of the client, GetRateLimit included, sends its request only after it
\* has waited the backoff.
C32_BackoffBeforeEveryCall ==
    [][(/\ RequestSent
        /\ gh.lastRateLimit # NoRateLimit
        /\ gh.lastRateLimit.Remaining <= gh.config.RateLimitThreshold)
       => gh.req.waited]_vars

\* C33: after a response that reports a quota, whatever its status and
\* whichever operation received it, the snapshot is that quota.
C33_SnapshotReplaced ==
    [][(RequestSent /\ gh'.req.status # 0 /\ gh'.req.hdr # NoRateLimit)
       => gh'.lastRateLimit = gh'.req.hdr]_vars

\* C34: a call that received a 403 or a 5xx returns an error, and the breaker
\* records one failure for it; after a 403 with Retry-After: N the call waits,
\* and does not return before the N seconds are over.
C34_ErrorResponses ==
    [][/\ (CallSelects /\ gh.req.status \in {StatusForbidden, StatusServerError})
          => /\ gh'.req.ret # NoErr
             /\ b'.failureCount = b.failureCount + 1
       /\ (RequestSent /\ gh'.req.retry > 0) => gh'.req.pc = "retryAfter"
       /\ CallSelects => ~(gh.req.pc = "retryAfter" /\ gh.req.wait > 0)]_vars

\* C40: a makeRequest that has waited out its backoff and then received a 200
\* has not returned an error, and the breaker has recorded no failure for it.
C40_BackoffIsNoFailure ==
    (/\ gh.req.op = "makeRequest" /\ gh.req.waited
     /\ gh.req.pc = "done" /\ gh.req.status = StatusOK /\ gh.req.fnret = NoErr)
    => gh.req.ret \in {"none", NoErr}

====
